---- MODULE Spec2Model ----
(***************************************************************************)
(* Verification model of the XML digital-signature helper                  *)
(* (xmlsecurity/source/helper): the SAX chain controller and SecurityId    *)
(* bookkeeping of XSecController, the signature serializers, and the       *)
(* DocumentSignatureManager add / remove / read cycle; and of the          *)
(* exponential-smoothing forecast of the spreadsheet interpreter           *)
(* (sc/source/core/tool/interpr8.cxx).                                     *)
(*                                                                         *)
(* Strings are modelled as sequences of tokens (<<>> is the empty string), *)
(* so that prefixing, suffix tests and truncation are computed.            *)
(***************************************************************************)
EXTENDS Integers, Sequences, FiniteSets, TLC

VARIABLES
    ctl,    \* the XSecController object (its member fields)
    sax,    \* the SAX pipeline around it: previous stage wiring, the
            \* SAXEventKeeper, the ElementStackKeeper, what the next stage got
    hc,     \* history of the last controller call (for the chain properties)
    hs,     \* history of the SecurityIds handed out and of the last result
            \* callback (for the SecurityId properties)
    rt,     \* a signature list, what the serializer wrote for it and what the
            \* reader made of that (for the round-trip property)
    mgr,    \* the DocumentSignatureManager with its document and its temporary
            \* stream and storage
    hm,     \* history of the last manager call (for the manager properties)
    ox,     \* one call of the OOXML export: its arguments and what the
            \* document handler received
    ets     \* one exponential-smoothing forecast call: its arguments and the
            \* fields of the calculation object

vars == <<ctl, sax, hc, hs, rt, mgr, hm, ox, ets>>

(***************************************************************************)
(* Bounds of the model.                                                    *)
(***************************************************************************)
MaxEvents == 2      \* SAX events the previous stage emits
MaxTime == 2      \* largest time value (in seconds) of a sample signature
MaxList == 2      \* longest sample signature list
MaxDoc == 3       \* signatures in the document the manager opens
MaxOps == 3       \* manager calls in a run
MaxIds == 3         \* SecurityIds handed out
MaxRefs == 2        \* longest reference list given to the OOXML export
MaxPoints == 3      \* data points of a forecast call checked for its target
MaxX == 3           \* largest X of such a call
MaxSamples == 6     \* longest series given to the period detection
MaxSeries == 5      \* longest series given by its gaps
MaxGap == 4         \* largest gap of such a series
MaxMonth == 5       \* last month of the monthly series
MaxInit == 4        \* longest series given to the initialisation

(***************************************************************************)
(* XSecController: construction (xsecctl.cxx 57-70).                       *)
(***************************************************************************)
XSecController ==
    [ m_nNextSecurityId               |-> 1,
      m_bIsSAXEventKeeperConnected    |-> FALSE,
      m_bIsCollectingElement          |-> FALSE,
      m_bIsBlocking                   |-> FALSE,
      m_nStatusOfSecurityComponents   |-> "UNINITIALIZED",
      m_bIsSAXEventKeeperSticky       |-> FALSE,
      m_xPreviousNodeOnSAXChain       |-> FALSE,   \* .is()
      m_xNextNodeOnSAXChain           |-> FALSE,   \* .is()
      m_xElementStackKeeper           |-> FALSE,   \* .is()
      m_xSAXEventKeeper               |-> FALSE,   \* .is()
      m_xUriBinding                   |-> FALSE,   \* .is()
      m_xSecurityContext              |-> FALSE,   \* .is()
      m_vInternalSignatureInformations |-> << >> ]

(***************************************************************************)
(* The pipeline the controller acts on.  prevHandler is the handler the    *)
(* previous stage currently sends its events to; sekNext is the            *)
(* SAXEventKeeper's next handler; sekBuf holds the events the keeper       *)
(* delays while it is blocking; eskBuf holds the events the                *)
(* ElementStackKeeper has reserved; delivered is what the next stage has   *)
(* received; calls logs the ElementStackKeeper calls of the current        *)
(* controller call, steps logs every operation the controller performs on  *)
(* the pipeline in the current call, in order, and rc is the result of     *)
(* the chainOn call made in it ("none" when chainOn was not called);       *)
(* retrieved counts the events the stack keeper replayed in it.            *)
(***************************************************************************)
Pipeline ==
    [ prevHandler |-> "next",
      sekNext     |-> "none",
      sekBlocking |-> FALSE,
      sekBuf      |-> << >>,
      eskOn       |-> FALSE,
      eskBuf      |-> << >>,
      delivered   |-> << >>,
      emitted     |-> 0,
      replayed    |-> FALSE,
      calls       |-> << >>,
      steps       |-> << >>,
      retrieved   |-> 0,
      rc          |-> "none" ]

\* The buffer stage receives one event: with its output disconnected the
\* event only enters its document buffer; while blocking it is held back;
\* otherwise it is forwarded to the next handler.
sekReceive(x, e) ==
    IF x.sekNext = "none" THEN x
    ELSE IF x.sekBlocking THEN [x EXCEPT !.sekBuf = Append(@, e)]
    ELSE [x EXCEPT !.delivered = Append(@, [e |-> e, via |-> "sek"])]

RECURSIVE sekReceiveAll(_, _)
sekReceiveAll(x, es) ==
    IF es = << >> THEN x
    ELSE sekReceiveAll(sekReceive(x, Head(es)), Tail(es))

\* The buffer stage releases the events it held back, in order.
sekRelease(x) ==
    LET out == IF x.sekNext = "none" THEN << >>
               ELSE [i \in 1..Len(x.sekBuf) |-> [e |-> x.sekBuf[i], via |-> "sek"]]
    IN [x EXCEPT !.delivered = @ \o out, !.sekBuf = << >>]

\* XElementStackKeeper: start, stop, retrieve.
eskStart(x) ==
    [x EXCEPT !.eskOn = TRUE, !.calls = Append(@, "start"),
              !.steps = Append(@, "start")]

eskStop(x) ==
    [x EXCEPT !.eskOn = FALSE, !.eskBuf = << >>, !.calls = Append(@, "stop"),
              !.steps = Append(@, "stop")]

eskRetrieve(x, includingTheLastEvent) ==
    LET n    == Len(x.eskBuf)
        k    == IF includingTheLastEvent \/ n = 0 THEN n ELSE n - 1
        sent == SubSeq(x.eskBuf, 1, k)
        x1   == sekReceiveAll(x, sent)
    IN [x1 EXCEPT !.eskBuf = SubSeq(x.eskBuf, k + 1, n),
                  !.replayed = @ \/ k > 0,
                  !.steps = Append(@, "retrieve"),
                  !.retrieved = @ + k]

(***************************************************************************)
(* XSecController private methods.  Each takes and returns the pair        *)
(* [c |-> controller, x |-> pipeline].                                     *)
(***************************************************************************)

\* createXSecComponent (xsecctl.cxx 119-208); bSuccess: every one of the
\* three components could be instantiated.
createXSecComponent(s, bSuccess) ==
    IF bSuccess
    THEN [c |-> [s.c EXCEPT !.m_nStatusOfSecurityComponents = "INITIALIZED",
                            !.m_xSAXEventKeeper = TRUE],
          x |-> [s.x EXCEPT !.sekNext = "none", !.sekBlocking = FALSE,
                            !.sekBuf = << >>, !.steps = Append(@, "create")]]
    ELSE [c |-> [s.c EXCEPT !.m_nStatusOfSecurityComponents = "FAILTOINITIALIZED",
                            !.m_xSAXEventKeeper = FALSE],
          x |-> [s.x EXCEPT !.steps = Append(@, "create")]]

\* Mutant of chainOnConnect: the keeper's output is connected before the
\* missed events are replayed.
chainOnConnect_OutputFirst(s, bRetrievingLastEvent) ==
    LET x0 == [s.x EXCEPT !.sekNext =
                   IF s.c.m_xNextNodeOnSAXChain THEN "next" ELSE "none",
                          !.steps = Append(@, "connect")]
        x1 == IF s.c.m_xPreviousNodeOnSAXChain
              THEN [x0 EXCEPT !.prevHandler = "sek", !.steps = Append(@, "redirect")]
              ELSE x0
        x2 == IF s.c.m_xElementStackKeeper
              THEN eskStop(eskRetrieve(x1, bRetrievingLastEvent)) ELSE x1
    IN [c |-> [s.c EXCEPT !.m_bIsSAXEventKeeperConnected = TRUE],
        x |-> [x2 EXCEPT !.rc = "true"]]

\* A variant of chainOnConnect that stops the stack keeper before it
\* retrieves the missed events.
chainOnConnect_StopFirst(s, bRetrievingLastEvent) ==
    LET x0 == [s.x EXCEPT !.sekNext = "none", !.steps = Append(@, "disconnect")]
        x1 == IF s.c.m_xPreviousNodeOnSAXChain
              THEN [x0 EXCEPT !.prevHandler = "sek", !.steps = Append(@, "redirect")]
              ELSE x0
        x2 == IF s.c.m_xElementStackKeeper
              THEN eskRetrieve(eskStop(x1), bRetrievingLastEvent) ELSE x1
        x3 == [x2 EXCEPT !.sekNext =
                   IF s.c.m_xNextNodeOnSAXChain THEN "next" ELSE "none",
                         !.steps = Append(@, "connect")]
    IN [c |-> [s.c EXCEPT !.m_bIsSAXEventKeeperConnected = TRUE],
        x |-> [x3 EXCEPT !.rc = "true"]]

\* chainOn, the branch taken when all components are ready
\* (xsecctl.cxx 265-318).
chainOnConnect(s, bRetrievingLastEvent) ==
    LET x0 == [s.x EXCEPT !.sekNext = "none", !.steps = Append(@, "disconnect")]
        x1 == IF s.c.m_xPreviousNodeOnSAXChain
              THEN [x0 EXCEPT !.prevHandler = "sek", !.steps = Append(@, "redirect")]
              ELSE x0
        x2 == IF s.c.m_xElementStackKeeper
              THEN eskStop(eskRetrieve(x1, bRetrievingLastEvent)) ELSE x1
        x3 == [x2 EXCEPT !.sekNext =
                   IF s.c.m_xNextNodeOnSAXChain THEN "next" ELSE "none",
                         !.steps = Append(@, "connect")]
    IN [c |-> [s.c EXCEPT !.m_bIsSAXEventKeeperConnected = TRUE],
        x |-> [x3 EXCEPT !.rc = "true"]]

\* A variant of chainOn that creates the components whenever they are not
\* ready, also after a failed creation.
chainOn_Retry(s, bRetrievingLastEvent, bCreate) ==
    IF ~s.c.m_bIsSAXEventKeeperSticky /\ ~s.c.m_bIsSAXEventKeeperConnected
    THEN LET s1 == IF s.c.m_nStatusOfSecurityComponents # "INITIALIZED"
                   THEN createXSecComponent(s, bCreate) ELSE s
         IN IF s1.c.m_nStatusOfSecurityComponents = "INITIALIZED"
            THEN chainOnConnect(s1, bRetrievingLastEvent)
            ELSE [s1 EXCEPT !.x.rc = "false"]
    ELSE [s EXCEPT !.x.rc = "false"]

\* chainOn (xsecctl.cxx 210-323); the result rc is recorded in the pipeline
\* log and is also given by chainOnRc.
chainOn(s, bRetrievingLastEvent, bCreate) ==
    IF ~s.c.m_bIsSAXEventKeeperSticky /\ ~s.c.m_bIsSAXEventKeeperConnected
    THEN LET s1 == IF s.c.m_nStatusOfSecurityComponents = "UNINITIALIZED"
                   THEN createXSecComponent(s, bCreate) ELSE s
         IN IF s1.c.m_nStatusOfSecurityComponents = "INITIALIZED"
            THEN chainOnConnect(s1, bRetrievingLastEvent)
            ELSE [s1 EXCEPT !.x.rc = "false"]
    ELSE [s EXCEPT !.x.rc = "false"]

chainOnRc(s, bCreate) ==
    /\ ~s.c.m_bIsSAXEventKeeperSticky
    /\ ~s.c.m_bIsSAXEventKeeperConnected
    /\ chainOn(s, TRUE, bCreate).c.m_nStatusOfSecurityComponents = "INITIALIZED"

\* Mutant of chainOff: the stack keeper is restarted whether or not the
\* keeper was connected.
chainOff_AlwaysStart(s) ==
    IF ~s.c.m_bIsSAXEventKeeperSticky
    THEN LET x0 == IF s.c.m_bIsSAXEventKeeperConnected
                   THEN [s.x EXCEPT !.sekNext = "none",
                                    !.steps = Append(@, "disconnect")]
                   ELSE s.x
             x1 == IF s.c.m_bIsSAXEventKeeperConnected /\ s.c.m_xPreviousNodeOnSAXChain
                   THEN [x0 EXCEPT !.prevHandler = "next", !.steps = Append(@, "restore")]
                   ELSE x0
             x2 == IF s.c.m_xElementStackKeeper THEN eskStart(x1) ELSE x1
         IN [c |-> [s.c EXCEPT !.m_bIsSAXEventKeeperConnected = FALSE], x |-> x2]
    ELSE s

\* chainOff (xsecctl.cxx 325-384).
chainOff(s) ==
    IF ~s.c.m_bIsSAXEventKeeperSticky /\ s.c.m_bIsSAXEventKeeperConnected
    THEN LET x0 == [s.x EXCEPT !.sekNext = "none", !.steps = Append(@, "disconnect")]
             x1 == IF s.c.m_xPreviousNodeOnSAXChain
                   THEN [x0 EXCEPT !.prevHandler = "next", !.steps = Append(@, "restore")]
                   ELSE x0
             x2 == IF s.c.m_xElementStackKeeper THEN eskStart(x1) ELSE x1
         IN [c |-> [s.c EXCEPT !.m_bIsSAXEventKeeperConnected = FALSE], x |-> x2]
    ELSE s

\* Mutant of checkChainingStatus: only the collecting flag is consulted.
checkChainingStatus_CollectingOnly(s, bCreate) ==
    IF s.c.m_bIsCollectingElement
    THEN chainOn(s, TRUE, bCreate)
    ELSE chainOff(s)

\* checkChainingStatus (xsecctl.cxx 386-421).
checkChainingStatus(s, bCreate) ==
    IF s.c.m_bIsCollectingElement \/ s.c.m_bIsBlocking
    THEN chainOn(s, TRUE, bCreate)
    ELSE chainOff(s)

\* initializeSAXChain (xsecctl.cxx 423-462).
initializeSAXChain(s) ==
    LET c1 == [s.c EXCEPT !.m_bIsSAXEventKeeperConnected = FALSE,
                          !.m_bIsCollectingElement = FALSE,
                          !.m_bIsBlocking = FALSE]
        x1 == IF c1.m_xElementStackKeeper THEN eskStart(s.x) ELSE s.x
    IN chainOff([c |-> c1, x |-> x1])

(***************************************************************************)
(* Signature records and SecurityIds.                                      *)
(***************************************************************************)
NoDateTime == [t |-> 0, NanoSeconds |-> 0]

\* A fresh SignatureInformation: the id it is constructed with, status
\* UNKNOWN, every other field empty.
SignatureInformation(nSecurityId) ==
    [ nSecurityId |-> nSecurityId,
      nStatus |-> "UNKNOWN",
      ouSignatureId |-> << >>,
      ouX509IssuerName |-> << >>,
      ouX509SerialNumber |-> << >>,
      ouX509Certificate |-> << >>,
      ouCertDigest |-> << >>,
      stDateTime |-> NoDateTime,
      ouDateTime |-> << >>,
      ouDescription |-> << >>,
      ouDescriptionPropertyId |-> << >>,
      ouPropertyId |-> << >>,
      ouSignatureValue |-> << >>,
      vSignatureReferenceInfors |-> << >> ]

InternalSignatureInformation(nSecurityId) ==
    [ signatureInfor |-> SignatureInformation(nSecurityId) ]

\* A search that stops at the first record whatever the id asked for.
findSignatureInfor_First(v, nSecurityId) == IF Len(v) = 0 THEN -1 ELSE 0

\* findSignatureInfor (xsecctl.cxx 80-117): the 0-based index of the first
\* record with the id, -1 when there is none.
findSignatureInfor(v, nSecurityId) ==
    LET hits == {i \in 1..Len(v) : v[i].signatureInfor.nSecurityId = nSecurityId}
    IN IF hits = {} THEN -1
       ELSE (CHOOSE i \in hits : \A j \in hits : i <= j) - 1

\* getNewSecurityId (xsecctl.cxx 501-506): returns the counter and advances
\* it.
getNewSecurityId(c) ==
    [ id |-> c.m_nNextSecurityId,
      c  |-> [c EXCEPT !.m_nNextSecurityId = @ + 1] ]

\* A mission start that also restarts the id counter.
startMissionCtl_ResetCounter(c, xUriBinding, xSecurityContext) ==
    [c EXCEPT !.m_xUriBinding = xUriBinding,
              !.m_nStatusOfSecurityComponents = "UNINITIALIZED",
              !.m_xSecurityContext = xSecurityContext,
              !.m_vInternalSignatureInformations = << >>,
              !.m_nNextSecurityId = 1]

\* startMission (xsecctl.cxx 508-545): takes the URI binding and the
\* security context, puts the component status back to UNINITIALIZED and
\* drops the records; the id counter is kept.
startMissionCtl(c, xUriBinding, xSecurityContext) ==
    [c EXCEPT !.m_xUriBinding = xUriBinding,
              !.m_nStatusOfSecurityComponents = "UNINITIALIZED",
              !.m_xSecurityContext = xSecurityContext,
              !.m_vInternalSignatureInformations = << >>]

\* A variant of endMission that also clears the records.
endMissionCtl_Clear(c) ==
    [c EXCEPT !.m_xUriBinding = FALSE,
              !.m_xSecurityContext = FALSE,
              !.m_vInternalSignatureInformations = << >>]

\* endMission (xsecctl.cxx 629-685): releases the URI binding and the
\* security context; the records, the component status and the id counter
\* are not touched.
endMissionCtl(c) ==
    [c EXCEPT !.m_xUriBinding = FALSE,
              !.m_xSecurityContext = FALSE]

\* The status update shared by signatureCreated (xsecctl.cxx 1416-1423) and
\* signatureVerified (xsecctl.cxx 1428-1435): the record found for the id
\* gets the status; with no such record at(-1) throws and nothing changes.
setStatusOf(c, securityId, nResult) ==
    LET index == findSignatureInfor(c.m_vInternalSignatureInformations, securityId)
    IN IF index = -1 \/ index + 1 > Len(c.m_vInternalSignatureInformations) THEN c
       ELSE [c EXCEPT !.m_vInternalSignatureInformations[index + 1]
                          .signatureInfor.nStatus = nResult]

\* DocumentSignatureManager: construction (documentsignaturemanager.cxx
\* 38-43).  nStorageFormat stands for whether mxStore holds
\* [Content_Types].xml; store is the signature stream or storage of mxStore,
\* holding nSignatures signatures.  A temporary stream or storage is kept
\* as the records exported to it so far (bHeader: the document was begun);
\* what it holds are the events of these exports.
NoStream ==
    [ is |-> FALSE, bHeader |-> FALSE, exported |-> << >>,
      bOutputClosed |-> FALSE, bDocumentClosed |-> FALSE ]

NoStorage == [is |-> FALSE, exported |-> << >>, nRelations |-> 0, bCommitted |-> FALSE]

DocumentSignatureManager ==
    [ nStorageFormat |-> "ODF",
      bTest |-> FALSE,
      store |-> [is |-> FALSE, nSignatures |-> 0],
      maCurrentSignatureInformations |-> << >>,
      mxTempSignatureStream |-> NoStream,
      mxTempSignatureStorage |-> NoStorage ]

NoManagerHistory ==
    [ op |-> "none", outcome |-> "none", before |-> << >>, bUseTempStream |-> FALSE,
      bAcquired |-> FALSE, nPosition |-> 0,
      removed |-> [valid |-> FALSE, nPosition |-> 0, before |-> << >>],
      steps |-> 0 ]

NoRoundTrip ==
    [ phase |-> "none", format |-> "ODF", bTest |-> FALSE, S |-> << >>,
      written |-> << >>, R |-> << >> ]

NoIdHistory ==
    [ issued |-> << >>, created |-> << >>, atMission |-> 0,
      cb |-> [done |-> FALSE, id |-> 0, st |-> "UNKNOWN", before |-> << >>],
      op |-> "none", before |-> << >> ]

\* No export call and no forecast call was made.
NoExport == [phase |-> "none"]

NoForecast == [phase |-> "none"]

(***************************************************************************)
(* Controller calls on the SAX chain.                                      *)
(***************************************************************************)
World ==
    [c |-> ctl,
     x |-> [sax EXCEPT !.calls = << >>, !.steps = << >>, !.retrieved = 0, !.rc = "none"]]

\* The chain history before any call.
NoChainHistory ==
    [ wasConnected |-> FALSE, inSet |-> FALSE, single |-> TRUE,
      everSet |-> FALSE, sinceSet |-> FALSE, op |-> "none" ]

\* What the chain properties need to know of the call just made: whether the
\* keeper was connected before it, whether it was setSAXChainConnector, and
\* whether only status callbacks (and events) followed the last
\* setSAXChainConnector, and whether the run so far is a single chain
\* session (at most one setSAXChainConnector, made while the keeper was not
\* blocking, and no clearSAXChainConnector).
Hist(op) ==
    [ wasConnected |-> ctl.m_bIsSAXEventKeeperConnected,
      inSet        |-> op = "setSAXChainConnector",
      single       |-> /\ hc.single
                       /\ op # "clearSAXChainConnector"
                       /\ ~(op = "setSAXChainConnector" /\ (hc.everSet \/ sax.sekBlocking)),
      everSet      |-> hc.everSet \/ op = "setSAXChainConnector",
      sinceSet     |-> IF op = "setSAXChainConnector" THEN TRUE
                       ELSE IF op \in {"blockingStatusChanged", "collectionStatusChanged",
                                       "emit"}
                       THEN hc.sinceSet
                       ELSE FALSE,
      op           |-> op ]

\* setSAXChainConnector (xsecctl.cxx 547-585).
setSAXChainConnector(xInitialization, xDocumentHandler, xElementStackKeeper) ==
    /\ UNCHANGED <<hs, rt, mgr, hm, ox, ets>>
    /\ LET c1 == [ctl EXCEPT !.m_xPreviousNodeOnSAXChain = xInitialization,
                             !.m_xNextNodeOnSAXChain = xDocumentHandler,
                             !.m_xElementStackKeeper = xElementStackKeeper]
           s  == initializeSAXChain([c |-> c1, x |-> World.x])
       IN /\ ctl' = s.c
          /\ sax' = s.x
          /\ hc' = Hist("setSAXChainConnector")

\* A variant of clearSAXChainConnector that tears the chain down before it
\* flushes the stack keeper.
clearSAXChainConnector_TearDownFirst ==
    /\ UNCHANGED <<hs, rt, mgr, hm, ox, ets>>
    /\ LET s  == chainOff([c |-> ctl, x |-> World.x])
           x1 == IF ctl.m_xElementStackKeeper /\ ctl.m_xSAXEventKeeper
                 THEN eskRetrieve(s.x, TRUE) ELSE s.x
       IN /\ ctl' = [s.c EXCEPT !.m_xPreviousNodeOnSAXChain = FALSE,
                                !.m_xNextNodeOnSAXChain = FALSE,
                                !.m_xElementStackKeeper = FALSE]
          /\ sax' = x1
          /\ hc' = Hist("clearSAXChainConnector")

\* clearSAXChainConnector (xsecctl.cxx 587-627).
clearSAXChainConnector ==
    /\ UNCHANGED <<hs, rt, mgr, hm, ox, ets>>
    /\ LET x1 == IF ctl.m_xElementStackKeeper /\ ctl.m_xSAXEventKeeper
                 THEN eskRetrieve(World.x, TRUE) ELSE World.x
           s  == chainOff([c |-> ctl, x |-> x1])
       IN /\ ctl' = [s.c EXCEPT !.m_xPreviousNodeOnSAXChain = FALSE,
                                !.m_xNextNodeOnSAXChain = FALSE,
                                !.m_xElementStackKeeper = FALSE]
          /\ sax' = s.x
          /\ hc' = Hist("clearSAXChainConnector")

\* blockingStatusChanged (xsecctl.cxx 1392-1397).  The keeper has changed
\* its blocking state (releasing what it held when it stops blocking) and
\* notifies the controller.
blockingStatusChanged(isBlocking, bCreate) ==
    /\ UNCHANGED <<hs, rt, mgr, hm, ox, ets>>
    /\ LET xk == IF isBlocking THEN [World.x EXCEPT !.sekBlocking = TRUE]
                 ELSE sekRelease([World.x EXCEPT !.sekBlocking = FALSE])
           s  == checkChainingStatus(
                     [c |-> [ctl EXCEPT !.m_bIsBlocking = isBlocking], x |-> xk], bCreate)
       IN /\ ctl' = s.c
          /\ sax' = s.x
          /\ hc' = Hist("blockingStatusChanged")

\* collectionStatusChanged (xsecctl.cxx 1399-1405).
collectionStatusChanged(isInsideCollectedElement, bCreate) ==
    /\ UNCHANGED <<hs, rt, mgr, hm, ox, ets>>
    /\ LET s == checkChainingStatus(
                    [c |-> [ctl EXCEPT !.m_bIsCollectingElement = isInsideCollectedElement],
                     x |-> World.x], bCreate)
       IN /\ ctl' = s.c
          /\ sax' = s.x
          /\ hc' = Hist("collectionStatusChanged")

\* The previous stage emits its next SAX event to its current handler; a
\* running stack keeper reserves it.
Emit ==
    /\ sax.emitted < MaxEvents
    /\ LET e  == sax.emitted + 1
           x0 == [World.x EXCEPT !.emitted = e]
           x1 == IF x0.prevHandler = "sek" THEN sekReceive(x0, e)
                 ELSE [x0 EXCEPT !.delivered = Append(@, [e |-> e, via |-> "direct"])]
           x2 == IF x1.eskOn THEN [x1 EXCEPT !.eskBuf = Append(@, e)] ELSE x1
       IN sax' = x2
    /\ ctl' = ctl
    /\ hc' = Hist("emit")
    /\ UNCHANGED <<hs, rt, mgr, hm, ox, ets>>

InitChain ==
    /\ ctl = XSecController
    /\ sax = Pipeline
    /\ hc = NoChainHistory
    /\ hs = NoIdHistory
    /\ rt = NoRoundTrip
    /\ mgr = DocumentSignatureManager
    /\ hm = NoManagerHistory
    /\ ox = NoExport
    /\ ets = NoForecast

NextChain ==
    \/ \E k \in BOOLEAN : setSAXChainConnector(TRUE, TRUE, k)
    \/ clearSAXChainConnector
    \/ \E b \in BOOLEAN, ok \in BOOLEAN : blockingStatusChanged(b, ok)
    \/ \E b \in BOOLEAN, ok \in BOOLEAN : collectionStatusChanged(b, ok)
    \/ Emit

SpecChain == InitChain /\ [][NextChain]_vars

(***************************************************************************)
(* Properties of the SAX chain controller.                                 *)
(***************************************************************************)
Engaged == ctl.m_bIsSAXEventKeeperConnected

CallsAtTransitions(startAlsoInSet) ==
    \A i \in 1..Len(sax.calls) :
        /\ sax.calls[i] = "stop" => (~hc.wasConnected /\ Engaged)
        /\ sax.calls[i] = "start" =>
               \/ hc.wasConnected /\ ~Engaged
               \/ startAlsoInSet /\ hc.inSet

\* C1 as stated: after setSAXChainConnector and any sequence of the two
\* status callbacks, the SAXEventKeeper is connected exactly when Collecting
\* or Blocking is set.
C1_Original ==
    hc.sinceSet =>
        (Engaged <=> (ctl.m_bIsCollectingElement \/ ctl.m_bIsBlocking))

\* C1 amended: after setSAXChainConnector and any sequence of the two status
\* callbacks, the SAXEventKeeper is connected exactly when Collecting or
\* Blocking is set and the security components are INITIALIZED (their
\* creation has not failed).
C1_EngagedIffFlagsAndInitialized ==
    hc.sinceSet =>
        (Engaged <=> /\ ctl.m_bIsCollectingElement \/ ctl.m_bIsBlocking
                     /\ ctl.m_nStatusOfSecurityComponents = "INITIALIZED")

\* C1 witness: the keeper was engaged by a flag and has just been disengaged
\* by the callback that cleared the last flag.
C1_Witness ==
    /\ hc.sinceSet /\ ~hc.inSet
    /\ hc.wasConnected /\ ~Engaged
    /\ ~ctl.m_bIsCollectingElement /\ ~ctl.m_bIsBlocking

\* C2 as stated: the stack keeper's stop() is called only on a
\* disconnected-to-connected transition and its start() only on a
\* connected-to-disconnected transition.
C2_Original == CallsAtTransitions(FALSE)

\* C2 amended: stop() is called only on a disconnected-to-connected
\* transition; start() is called only on a connected-to-disconnected
\* transition or by setSAXChainConnector, whose initializeSAXChain starts
\* the stack keeper whether or not the connection changes.
C2_StopStartAtTransitionsOrSet == CallsAtTransitions(TRUE)

\* C2 witness: a status callback disengaged the keeper and restarted the
\* stack keeper.
C2_Witness ==
    /\ sax.calls = <<"start">> /\ ~hc.inSet
    /\ hc.wasConnected /\ ~Engaged

InOrder(d) == \A i, j \in 1..Len(d) : i < j => d[i].e < d[j].e

\* C3: within a chain session (one setSAXChainConnector made while the keeper
\* is idle, then events and status callbacks in any interleaving) the next
\* stage receives the events in the order in which the previous stage
\* emitted them, none twice.
C3_DeliveredInOrder == hc.single => InOrder(sax.delivered)

\* C3 witness: an event went to the next stage directly while the stack
\* keeper reserved it, it was replayed into the keeper on engagement, and a
\* later event reached the next stage through the keeper.
C3_Witness ==
    /\ hc.single /\ sax.replayed
    /\ \E i, j \in 1..Len(sax.delivered) :
          /\ i < j
          /\ sax.delivered[i].via = "direct"
          /\ sax.delivered[j].via = "sek"

(***************************************************************************)
(* Controller calls on the records and the SecurityIds.                    *)
(***************************************************************************)
Results == {"OPERATION_SUCCEEDED", "UNKNOWN_FAILURE"}

IdHist(issued, created, mission, cb) ==
    [ issued    |-> hs.issued \o issued,
      created   |-> hs.created \o created,
      atMission |-> IF mission THEN Len(hs.issued) ELSE hs.atMission,
      cb        |-> cb,
      op        |-> IF mission THEN "startMission" ELSE "call",
      before    |-> ctl.m_vInternalSignatureInformations ]

\* A caller asks for an id and makes no record for it.
GetNewSecurityId ==
    /\ ctl.m_nNextSecurityId <= MaxIds
    /\ LET r == getNewSecurityId(ctl)
       IN /\ ctl' = r.c
          /\ hs' = IdHist(<<r.id>>, << >>, FALSE, NoIdHistory.cb)
    /\ UNCHANGED <<sax, hc, rt, mgr, hm, ox, ets>>

\* A caller asks for an id and appends the record made with it, as the
\* signing and the reading paths do.
addSignature ==
    /\ ctl.m_nNextSecurityId <= MaxIds
    /\ LET r == getNewSecurityId(ctl)
       IN /\ ctl' = [r.c EXCEPT !.m_vInternalSignatureInformations =
                                    Append(@, InternalSignatureInformation(r.id))]
          /\ hs' = IdHist(<<r.id>>, <<r.id>>, FALSE, NoIdHistory.cb)
    /\ UNCHANGED <<sax, hc, rt, mgr, hm, ox, ets>>

startMission ==
    /\ \E u \in BOOLEAN, k \in BOOLEAN : ctl' = startMissionCtl(ctl, u, k)
    /\ hs' = IdHist(<< >>, << >>, TRUE, NoIdHistory.cb)
    /\ UNCHANGED <<sax, hc, rt, mgr, hm, ox, ets>>

endMission ==
    /\ ctl' = endMissionCtl(ctl)
    /\ hs' = [IdHist(<< >>, << >>, FALSE, NoIdHistory.cb) EXCEPT !.op = "endMission"]
    /\ UNCHANGED <<sax, hc, rt, mgr, hm, ox, ets>>

CallbackHist(securityId, nResult) ==
    IdHist(<< >>, << >>, FALSE,
           [done |-> TRUE, id |-> securityId, st |-> nResult,
            before |-> ctl.m_vInternalSignatureInformations])

\* signatureCreated (xsecctl.cxx 1416-1423).
signatureCreated(securityId, nResult) ==
    /\ ctl' = setStatusOf(ctl, securityId, nResult)
    /\ hs' = CallbackHist(securityId, nResult)
    /\ UNCHANGED <<sax, hc, rt, mgr, hm, ox, ets>>

\* signatureVerified (xsecctl.cxx 1428-1435).
signatureVerified(securityId, nResult) ==
    /\ ctl' = setStatusOf(ctl, securityId, nResult)
    /\ hs' = CallbackHist(securityId, nResult)
    /\ UNCHANGED <<sax, hc, rt, mgr, hm, ox, ets>>

InitCtl ==
    /\ ctl = XSecController
    /\ sax = Pipeline
    /\ hc = NoChainHistory
    /\ hs = NoIdHistory
    /\ rt = NoRoundTrip
    /\ mgr = DocumentSignatureManager
    /\ hm = NoManagerHistory
    /\ ox = NoExport
    /\ ets = NoForecast

NextCtl ==
    \/ GetNewSecurityId
    \/ addSignature
    \/ startMission
    \/ endMission
    \/ \E id \in 1..MaxIds, r \in Results : signatureCreated(id, r)
    \/ \E id \in 1..MaxIds, r \in Results : signatureVerified(id, r)

SpecCtl == InitCtl /\ [][NextCtl]_vars

(***************************************************************************)
(* Properties of the records and the SecurityIds.                          *)
(***************************************************************************)
Records == ctl.m_vInternalSignatureInformations

\* C9: a signatureVerified or signatureCreated callback sets the status of
\* exactly the record whose SecurityId it names: that record, the only one
\* with the id, takes the reported status and every other record is as it
\* was.
C9_StatusOfMatchingRecordOnly ==
    hs.cb.done =>
        /\ Len(Records) = Len(hs.cb.before)
        /\ \A i \in 1..Len(hs.cb.before) :
              Records[i] =
                  IF hs.cb.before[i].signatureInfor.nSecurityId = hs.cb.id
                  THEN [hs.cb.before[i] EXCEPT !.signatureInfor.nStatus = hs.cb.st]
                  ELSE hs.cb.before[i]
        /\ Cardinality({i \in 1..Len(Records) :
                           Records[i].signatureInfor.nSecurityId = hs.cb.id}) <= 1

\* C9 witness: with two records present, a callback for the second record's
\* id changed that record's status and left the first record's different
\* status alone.
C9_Witness ==
    /\ hs.cb.done
    /\ Len(Records) >= 2
    /\ Records[2].signatureInfor.nSecurityId = hs.cb.id
    /\ Records[2].signatureInfor.nStatus = hs.cb.st
    /\ hs.cb.before[2].signatureInfor.nStatus # hs.cb.st
    /\ Records[1].signatureInfor.nStatus # hs.cb.st

\* C10: the ids handed out are 1, 2, 3, ... in that order, across
\* startMission and endMission, and no two records ever created carry the
\* same id.
C10_IdsIncreaseFromOne ==
    /\ \A i \in 1..Len(hs.issued) : hs.issued[i] = i
    /\ \A i, j \in 1..Len(hs.created) :
           i # j => hs.created[i] # hs.created[j]

\* C10 witness: ids were handed out before and after a startMission, and
\* records were created on both sides of it.
C10_Witness ==
    /\ 0 < hs.atMission /\ hs.atMission < Len(hs.issued)
    /\ Len(hs.created) >= 2
    /\ hs.created[1] <= hs.atMission
    /\ hs.created[Len(hs.created)] > hs.atMission
    /\ Len(Records) < Len(hs.created)

(***************************************************************************)
(* The signature serializers.  A string is a sequence of tokens (<< >> is  *)
(* the empty string, \o is concatenation); a SAX event is a record; an     *)
(* export is the sequence of events the document handler receives.         *)
(***************************************************************************)
startsWith(s, prefix) ==
    Len(prefix) <= Len(s) /\ SubSeq(s, 1, Len(prefix)) = prefix

endsWith(s, suffix) ==
    Len(suffix) <= Len(s) /\ SubSeq(s, Len(s) - Len(suffix) + 1, Len(s)) = suffix

\* indexOf: the 0-based position of the first token ch, -1 when absent.
indexOf(s, ch) ==
    LET hits == {i \in 1..Len(s) : s[i] = ch}
    IN IF hits = {} THEN -1
       ELSE (CHOOSE i \in hits : \A j \in hits : i <= j) - 1

RECURSIVE Flatten(_)
Flatten(ss) == IF ss = << >> THEN << >> ELSE Head(ss) \o Flatten(Tail(ss))

Attr(name, value) == [n |-> name, v |-> value]

startElement(tag, attrs) == <<[k |-> "start", tag |-> tag, attrs |-> attrs, text |-> << >>]>>

endElement(tag) == <<[k |-> "end", tag |-> tag, attrs |-> << >>, text |-> << >>]>>

characters(text) == <<[k |-> "chars", tag |-> "", attrs |-> << >>, text |-> text]>>

\* A variant of Element that closes the element before its content.
Element_ClosedFirst(tag, attrs, body) == startElement(tag, attrs) \o endElement(tag) \o body

Element(tag, attrs, body) == startElement(tag, attrs) \o body \o endElement(tag)

CHAR_FRAGMENT == <<"#">>
NS_XMLDSIG == <<"http://www.w3.org/2000/09/xmldsig#">>
NS_DC == <<"http://purl.org/dc/elements/1.1/">>
NS_MDSSI == <<"http://schemas.openxmlformats.org/package/2006/digital-signature">>
NS_XD == <<"http://uri.etsi.org/01903/v1.3.2#">>
ALGO_C14N == <<"http://www.w3.org/TR/2001/REC-xml-c14n-20010315">>
ALGO_RSASHA1 == <<"http://www.w3.org/2000/09/xmldsig#rsa-sha1">>
ALGO_RSASHA256 == <<"http://www.w3.org/2001/04/xmldsig-more#rsa-sha256">>
ALGO_XMLDSIGSHA1 == <<"http://www.w3.org/2000/09/xmldsig#sha1">>
ALGO_XMLDSIGSHA256 == <<"http://www.w3.org/2001/04/xmlenc#sha256">>
ALGO_RELATIONSHIP == <<"http://schemas.openxmlformats.org/package/2006/RelationshipTransform">>

\* utl::toISO8601: the date and time to the second, then a comma and the
\* nanoseconds when these are not zero.
toISO8601(stDateTime) ==
    <<ToString(stDateTime.t)>> \o
    (IF stDateTime.NanoSeconds # 0
     THEN <<",", ToString(stDateTime.NanoSeconds)>> ELSE << >>)

\* A URI attribute that leaves the fragment mark off.
ReferenceURI_NoFragment(refInfor) == refInfor.ouURI

\* The URI attribute of an ODF <Reference> (xsecctl.cxx 786-805): the URI of
\* a stream reference as it is, that of a same-document reference after "#".
ReferenceURI(refInfor) ==
    IF refInfor.nType # "SAMEDOCUMENT"
    THEN refInfor.ouURI
    ELSE CHAR_FRAGMENT \o refInfor.ouURI

\* exportSignature (xsecctl.cxx 687-984): the ODF form of one signature.
exportSignature(signatureInfo) ==
    LET vReferenceInfors == signatureInfo.vSignatureReferenceInfors
        Reference(refInfor) ==
            Element("Reference",
                <<Attr("URI", ReferenceURI(refInfor))>>,
                (IF refInfor.nType = "XMLSTREAM"
                 THEN Element("Transforms", << >>,
                          Element("Transform", <<Attr("Algorithm", ALGO_C14N)>>, << >>))
                 ELSE << >>)
                \o Element("DigestMethod", <<Attr("Algorithm", ALGO_XMLDSIGSHA1)>>, << >>)
                \o Element("DigestValue", << >>, characters(refInfor.ouDigestValue)))
        buffer == IF signatureInfo.ouDateTime # << >>
                  THEN signatureInfo.ouDateTime
                  ELSE toISO8601(signatureInfo.stDateTime)
    IN Element("Signature",
           <<Attr("xmlns", NS_XMLDSIG)>> \o
           (IF signatureInfo.ouSignatureId # << >>
            THEN <<Attr("Id", signatureInfo.ouSignatureId)>> ELSE << >>),
           Element("SignedInfo", << >>,
               Element("CanonicalizationMethod", <<Attr("Algorithm", ALGO_C14N)>>, << >>)
               \o Element("SignatureMethod", <<Attr("Algorithm", ALGO_RSASHA1)>>, << >>)
               \o Flatten([j \in 1..Len(vReferenceInfors) |-> Reference(vReferenceInfors[j])]))
           \o Element("SignatureValue", << >>, characters(signatureInfo.ouSignatureValue))
           \o Element("KeyInfo", << >>,
                  Element("X509Data", << >>,
                      Element("X509IssuerSerial", << >>,
                          Element("X509IssuerName", << >>,
                                  characters(signatureInfo.ouX509IssuerName))
                          \o Element("X509SerialNumber", << >>,
                                     characters(signatureInfo.ouX509SerialNumber)))
                      \o (IF signatureInfo.ouX509Certificate # << >>
                          THEN Element("X509Certificate", << >>,
                                       characters(signatureInfo.ouX509Certificate))
                          ELSE << >>)))
           \o Element("Object", << >>,
                  Element("SignatureProperties", << >>,
                      Element("SignatureProperty",
                              <<Attr("Id", signatureInfo.ouPropertyId),
                                Attr("Target", CHAR_FRAGMENT \o signatureInfo.ouSignatureId)>>,
                              Element("dc:date", <<Attr("xmlns:dc", NS_DC)>>,
                                      characters(buffer)))
                      \o (IF signatureInfo.ouDescription # << >>
                          THEN Element("SignatureProperty",
                                   <<Attr("Id", signatureInfo.ouDescriptionPropertyId),
                                     Attr("Target",
                                          CHAR_FRAGMENT \o signatureInfo.ouSignatureId)>>,
                                   Element("dc:description", <<Attr("xmlns:dc", NS_DC)>>,
                                           characters(signatureInfo.ouDescription)))
                          ELSE << >>))))

\* A variant that compares the whole stream name with the entries.
lcl_isOOXMLBlacklist_Exact(rStreamName) ==
    rStreamName \in { <<"/", "%5BContent_Types%5D.xml">>,
                      <<"/", "docProps/app.xml">>,
                      <<"/", "docProps/core.xml">>,
                      <<"/", "_xmlsignatures">> }

\* lcl_isOOXMLBlacklist (xsecctl.cxx 987-1002): the stream name starts with
\* one of the four entries.
lcl_isOOXMLBlacklist(rStreamName) ==
    \E rLiteral \in { <<"/", "%5BContent_Types%5D.xml">>,
                      <<"/", "docProps/app.xml">>,
                      <<"/", "docProps/core.xml">>,
                      <<"/", "_xmlsignatures">> } :
        startsWith(rStreamName, rLiteral)

\* A variant without the digital-signature origin entry.
lcl_isOOXMLRelationBlacklist_Two(rRelationName) ==
    rRelationName \in
        { <<"http://schemas.openxmlformats.org/officeDocument/2006/relationships/extended-properties">>,
          <<"http://schemas.openxmlformats.org/package/2006/relationships/metadata/core-properties">> }

\* lcl_isOOXMLRelationBlacklist (xsecctl.cxx 1005-1017): the relation type is
\* one of the three entries.
lcl_isOOXMLRelationBlacklist(rRelationName) ==
    rRelationName \in
        { <<"http://schemas.openxmlformats.org/officeDocument/2006/relationships/extended-properties">>,
          <<"http://schemas.openxmlformats.org/package/2006/relationships/metadata/core-properties">>,
          <<"http://schemas.openxmlformats.org/package/2006/relationships/digital-signature/origin">> }

RELATIONSHIPS_SUFFIX ==
    <<"?", "ContentType=application/vnd.openxmlformats-package.relationships+xml">>

\* The name of the relationships part a reference URI stands for
\* (xsecctl.cxx 1118-1125): without the leading slash and the query part.
RelationsStreamName(ouURI) ==
    LET aURI == IF startsWith(ouURI, <<"/">>) THEN Tail(ouURI) ELSE ouURI
        nQueryPos == indexOf(aURI, "?")
    IN IF nQueryPos # -1 THEN SubSeq(aURI, 1, nQueryPos) ELSE aURI

\* The value of the last pair named First in the pairs of one relation
\* (xsecctl.cxx 1138-1146), empty when there is none.
PairValue(rPairs, First) ==
    LET hits == {i \in 1..Len(rPairs) : rPairs[i].First = First}
    IN IF hits = {} THEN << >>
       ELSE rPairs[CHOOSE i \in hits : \A j \in hits : j <= i].Second

\* The signature time written by the OOXML export (xsecctl.cxx 1202-1215):
\* the string read if there is one, else the converted time cut at the comma
\* and closed with Z.
SignatureTimeValue(rInformation) ==
    IF rInformation.ouDateTime # << >>
    THEN rInformation.ouDateTime
    ELSE LET aSignatureTimeValue == toISO8601(rInformation.stDateTime)
             nCommaPos == indexOf(aSignatureTimeValue, ",")
         IN IF nCommaPos # -1
            THEN SubSeq(aSignatureTimeValue, 1, nCommaPos) \o <<"Z">>
            ELSE aSignatureTimeValue

\* The xd:SignedProperties subtree of the OOXML export (xsecctl.cxx
\* 1302-1344): signing time, certificate digest, issuer and serial number,
\* and the implied signature policy.
SignedProperties(rInformation, aSignatureTimeValue) ==
    Element("xd:SignedProperties", <<Attr("Id", <<"idSignedProperties">>)>>,
        Element("xd:SignedSignatureProperties", << >>,
            Element("xd:SigningTime", << >>, characters(aSignatureTimeValue))
            \o Element("xd:SigningCertificate", << >>,
                   Element("xd:Cert", << >>,
                       Element("xd:CertDigest", << >>,
                           Element("DigestMethod",
                               <<Attr("Algorithm", ALGO_XMLDSIGSHA256)>>, << >>)
                           \o Element("DigestValue", << >>,
                                      characters(rInformation.ouCertDigest)))
                       \o Element("xd:IssuerSerial", << >>,
                              Element("X509IssuerName", << >>,
                                      characters(rInformation.ouX509IssuerName))
                              \o Element("X509SerialNumber", << >>,
                                         characters(rInformation.ouX509SerialNumber)))))
            \o Element("xd:SignaturePolicyIdentifier", << >>,
                   Element("xd:SignaturePolicyImplied", << >>, << >>))))

\* A variant that writes the signed properties in test mode too.
QualifyingProperties_Always(rInformation, aSignatureTimeValue, bTest) ==
    Element("xd:QualifyingProperties",
        <<Attr("xmlns:xd", NS_XD), Attr("Target", <<"#", "idPackageSignature">>)>>,
        SignedProperties(rInformation, aSignatureTimeValue))

\* The xd:QualifyingProperties element of the OOXML export (xsecctl.cxx
\* 1291-1346): the element is always started and ended; its content is
\* written unless LO_TESTNAME is set.
QualifyingProperties(rInformation, aSignatureTimeValue, bTest) ==
    Element("xd:QualifyingProperties",
        <<Attr("xmlns:xd", NS_XD), Attr("Target", <<"#", "idPackageSignature">>)>>,
        IF ~bTest
        THEN SignedProperties(rInformation, aSignatureTimeValue)
        ELSE << >>)

\* openStreamElementByHierarchicalName throws for a relationships part the
\* root storage does not hold (xsecctl.cxx 1127); the export ends there.
exportOOXMLSignatureThrows(xRootStorage, rInformation) ==
    \E j \in 1..Len(rInformation.vSignatureReferenceInfors) :
        LET rReference == rInformation.vSignatureReferenceInfors[j]
        IN /\ rReference.nType # "SAMEDOCUMENT"
           /\ ~lcl_isOOXMLBlacklist(rReference.ouURI)
           /\ endsWith(rReference.ouURI, RELATIONSHIPS_SUFFIX)
           /\ RelationsStreamName(rReference.ouURI) \notin DOMAIN xRootStorage

\* exportOOXMLSignature (xsecctl.cxx 1019-1350): the OOXML form of one
\* signature.  xRootStorage gives the relations of each relationships part;
\* bTest is whether LO_TESTNAME is set.
exportOOXMLSignature(xRootStorage, rInformation, bTest) ==
    LET rReferences == rInformation.vSignatureReferenceInfors
        Text(tag, text) == Element(tag, << >>, characters(text))
        SignedInfoReference(rReference) ==
            IF rReference.nType = "SAMEDOCUMENT"
            THEN Element("Reference",
                     <<Attr("Type",
                            IF rReference.ouURI # <<"idSignedProperties">>
                            THEN <<"http://www.w3.org/2000/09/xmldsig#Object">>
                            ELSE <<"http://uri.etsi.org/01903#SignedProperties">>),
                       Attr("URI", CHAR_FRAGMENT \o rReference.ouURI)>>,
                     (IF rReference.ouURI = <<"idSignedProperties">>
                      THEN Element("Transforms", << >>,
                               Element("Transform", <<Attr("Algorithm", ALGO_C14N)>>, << >>))
                      ELSE << >>)
                     \o Element("DigestMethod",
                                <<Attr("Algorithm", ALGO_XMLDSIGSHA256)>>, << >>)
                     \o Text("DigestValue", rReference.ouDigestValue))
            ELSE << >>
        RelationshipReference(rPairs) ==
            IF lcl_isOOXMLRelationBlacklist(PairValue(rPairs, "Type"))
            THEN << >>
            ELSE Element("mdssi:RelationshipReference",
                         <<Attr("xmlns:mdssi", NS_MDSSI),
                           Attr("SourceId", PairValue(rPairs, "Id"))>>, << >>)
        Transforms(rReference) ==
            IF endsWith(rReference.ouURI, RELATIONSHIPS_SUFFIX)
            THEN LET aURI == RelationsStreamName(rReference.ouURI)
                     aRelationsInfo == IF aURI \in DOMAIN xRootStorage
                                       THEN xRootStorage[aURI] ELSE << >>
                 IN Element("Transforms", << >>,
                        Element("Transform", <<Attr("Algorithm", ALGO_RELATIONSHIP)>>,
                            Flatten([i \in 1..Len(aRelationsInfo) |->
                                        RelationshipReference(aRelationsInfo[i])]))
                        \o Element("Transform", <<Attr("Algorithm", ALGO_C14N)>>, << >>))
            ELSE << >>
        ManifestReference(rReference) ==
            IF rReference.nType # "SAMEDOCUMENT" /\ ~lcl_isOOXMLBlacklist(rReference.ouURI)
            THEN Element("Reference", <<Attr("URI", rReference.ouURI)>>,
                     Transforms(rReference)
                     \o Element("DigestMethod",
                                <<Attr("Algorithm", ALGO_XMLDSIGSHA256)>>, << >>)
                     \o Text("DigestValue", rReference.ouDigestValue))
            ELSE << >>
        aSignatureTimeValue == SignatureTimeValue(rInformation)
        Target == Attr("Target", <<"#", "idPackageSignature">>)
    IN Element("Signature",
           <<Attr("xmlns", NS_XMLDSIG), Attr("Id", <<"idPackageSignature">>)>>,
           Element("SignedInfo", << >>,
               Element("CanonicalizationMethod", <<Attr("Algorithm", ALGO_C14N)>>, << >>)
               \o Element("SignatureMethod", <<Attr("Algorithm", ALGO_RSASHA256)>>, << >>)
               \o Flatten([j \in 1..Len(rReferences) |-> SignedInfoReference(rReferences[j])]))
           \o Text("SignatureValue", rInformation.ouSignatureValue)
           \o Element("KeyInfo", << >>,
                  Element("X509Data", << >>,
                      Text("X509Certificate", rInformation.ouX509Certificate)))
           \o Element("Object", <<Attr("Id", <<"idPackageObject">>)>>,
                  Element("Manifest", << >>,
                      Flatten([j \in 1..Len(rReferences) |->
                                  ManifestReference(rReferences[j])]))
                  \o Element("SignatureProperties", << >>,
                         Element("SignatureProperty",
                             <<Attr("Id", <<"idSignatureTime">>), Target>>,
                             Element("mdssi:SignatureTime",
                                 <<Attr("xmlns:mdssi", NS_MDSSI)>>,
                                 Text("mdssi:Format", <<"YYYY-MM-DDThh:mm:ssTZD">>)
                                 \o Text("mdssi:Value", aSignatureTimeValue)))))
           \o Element("Object", <<Attr("Id", <<"idOfficeObject">>)>>,
                  Element("SignatureProperties", << >>,
                      Element("SignatureProperty",
                          <<Attr("Id", <<"idOfficeV1Details">>), Target>>,
                          Element("SignatureInfoV1",
                              <<Attr("xmlns",
                                     <<"http://schemas.microsoft.com/office/2006/digsig">>)>>,
                              Element("SetupId", << >>, << >>)
                              \o Element("SignatureText", << >>, << >>)
                              \o Element("SignatureImage", << >>, << >>)
                              \o Text("SignatureComments", rInformation.ouDescription)
                              \o Text("WindowsVersion", <<"6.1">>)
                              \o Text("OfficeVersion", <<"16.0">>)
                              \o Text("ApplicationVersion", <<"16.0">>)
                              \o Text("Monitors", <<"1">>)
                              \o Text("HorizontalResolution", <<"1280">>)
                              \o Text("VerticalResolution", <<"800">>)
                              \o Text("ColorDepth", <<"32">>)
                              \o Text("SignatureProviderId",
                                      <<"{00000000-0000-0000-0000-000000000000}">>)
                              \o Element("SignatureProviderUrl", << >>, << >>)
                              \o Text("SignatureProviderDetails", <<"9">>)
                              \o Text("SignatureType", <<"1">>)))))
           \o Element("Object", << >>,
                  QualifyingProperties(rInformation, aSignatureTimeValue, bTest)))

(***************************************************************************)
(* The signature reader: a SAX handler that rebuilds the records from the  *)
(* events of a signature document through the controller.                  *)
(***************************************************************************)
AttrValue(attrs, name) ==
    LET hits == {i \in 1..Len(attrs) : attrs[i].n = name}
    IN IF hits = {} THEN << >>
       ELSE attrs[CHOOSE i \in hits : \A j \in hits : i <= j].v

ParseNumber(token) ==
    IF \E n \in 0..MaxTime : ToString(n) = token
    THEN CHOOSE n \in 0..MaxTime : ToString(n) = token
    ELSE 0

\* utl::ISO8601parseDateTime: the time to the second, and the nanoseconds
\* after a comma when there is one; a closing Z is skipped.
ISO8601parseDateTime(ouDate) ==
    IF ouDate = << >> THEN NoDateTime
    ELSE [ t |-> ParseNumber(ouDate[1]),
           NanoSeconds |-> IF Len(ouDate) >= 3 /\ ouDate[2] = ","
                           THEN ParseNumber(ouDate[3]) ELSE 0 ]

\* The controller's setters used by the reader: each updates the record of
\* the signature being read, the last one.
LastInformation(c) ==
    c.m_vInternalSignatureInformations[Len(c.m_vInternalSignatureInformations)]
        .signatureInfor

UpdateLast(c, signatureInfor) ==
    [c EXCEPT !.m_vInternalSignatureInformations[Len(c.m_vInternalSignatureInformations)]
                   .signatureInfor = signatureInfor]

addReference(c, nType, ouURI) ==
    IF c.m_vInternalSignatureInformations = << >> THEN c
    ELSE UpdateLast(c, [LastInformation(c) EXCEPT !.vSignatureReferenceInfors =
             Append(@, [nType |-> nType, ouURI |-> ouURI, ouDigestValue |-> << >>])])

setDigestValue(c, ouDigestValue) ==
    IF c.m_vInternalSignatureInformations = << >> THEN c
    ELSE LET si == LastInformation(c)
         IN IF si.vSignatureReferenceInfors = << >> THEN c
            ELSE UpdateLast(c, [si EXCEPT
                     !.vSignatureReferenceInfors[Len(si.vSignatureReferenceInfors)]
                          .ouDigestValue = ouDigestValue])

setDate(c, ouDate) ==
    IF c.m_vInternalSignatureInformations = << >> THEN c
    ELSE UpdateLast(c, [LastInformation(c) EXCEPT
             !.stDateTime = ISO8601parseDateTime(ouDate),
             !.ouDateTime = ouDate])

setField(c, field, value) ==
    IF c.m_vInternalSignatureInformations = << >> THEN c
    ELSE UpdateLast(c, [LastInformation(c) EXCEPT ![field] = value])

\* A new record with the next SecurityId is appended for the signature
\* being read or created.
addSignatureTo(c) ==
    LET r == getNewSecurityId(c)
    IN [r.c EXCEPT !.m_vInternalSignatureInformations =
                       Append(@, InternalSignatureInformation(r.id))]

Parser(c) ==
    [ c |-> c, uri |-> << >>, unresolved |-> FALSE, chars |-> << >>,
      digest |-> << >>, inCertDigest |-> FALSE ]

\* One SAX event received by the reader.
parserEvent(p, e, nResult) ==
    IF e.k = "chars" THEN [p EXCEPT !.chars = @ \o e.text]
    ELSE IF e.k = "start" THEN
        LET q == [p EXCEPT !.chars = << >>]
        IN CASE e.tag = "Signature" ->
                    LET c1 == addSignatureTo(q.c)
                        id == AttrValue(e.attrs, "Id")
                    IN [q EXCEPT !.c = IF id # << >>
                                       THEN setField(c1, "ouSignatureId", id) ELSE c1]
             [] e.tag = "Reference" ->
                    LET uri == AttrValue(e.attrs, "URI")
                    IN IF startsWith(uri, CHAR_FRAGMENT)
                       THEN [q EXCEPT !.c = addReference(q.c, "SAMEDOCUMENT", Tail(uri))]
                       ELSE [q EXCEPT !.uri = uri, !.unresolved = TRUE]
             [] e.tag = "Transform" ->
                    IF q.unresolved /\ AttrValue(e.attrs, "Algorithm") = ALGO_C14N
                    THEN [q EXCEPT !.c = addReference(q.c, "XMLSTREAM", q.uri),
                                   !.unresolved = FALSE]
                    ELSE q
             [] e.tag = "xd:CertDigest" -> [q EXCEPT !.inCertDigest = TRUE]
             [] OTHER -> q
    ELSE
        CASE e.tag = "DigestValue" ->
                 IF p.inCertDigest
                 THEN [p EXCEPT !.c = setField(p.c, "ouCertDigest", p.chars)]
                 ELSE [p EXCEPT !.digest = p.chars]
          [] e.tag = "xd:CertDigest" -> [p EXCEPT !.inCertDigest = FALSE]
          [] e.tag = "Reference" ->
                 LET c1 == IF p.unresolved
                           THEN addReference(p.c, "BINARYSTREAM", p.uri) ELSE p.c
                 IN [p EXCEPT !.c = setDigestValue(c1, p.digest),
                              !.unresolved = FALSE]
          [] e.tag = "SignatureValue" ->
                 [p EXCEPT !.c = setField(p.c, "ouSignatureValue", p.chars)]
          [] e.tag = "X509IssuerName" ->
                 [p EXCEPT !.c = setField(p.c, "ouX509IssuerName", p.chars)]
          [] e.tag = "X509SerialNumber" ->
                 [p EXCEPT !.c = setField(p.c, "ouX509SerialNumber", p.chars)]
          [] e.tag = "X509Certificate" ->
                 [p EXCEPT !.c = setField(p.c, "ouX509Certificate", p.chars)]
          [] e.tag \in {"dc:date", "mdssi:Value"} ->
                 [p EXCEPT !.c = setDate(p.c, p.chars)]
          [] e.tag \in {"dc:description", "SignatureComments"} ->
                 [p EXCEPT !.c = setField(p.c, "ouDescription", p.chars)]
          [] e.tag = "Signature" ->
                 LET v == p.c.m_vInternalSignatureInformations
                 IN [p EXCEPT !.c = setStatusOf(p.c, v[Len(v)].signatureInfor.nSecurityId,
                                                nResult)]
          [] OTHER -> p

\* The events are received one after the other; the handler is through with
\* the first half of a run of events before it gets the second.
RECURSIVE parserEvents(_, _, _, _, _)
parserEvents(p, events, first, last, nResult) ==
    IF first > last THEN p
    ELSE IF first = last THEN parserEvent(p, events[first], nResult)
    ELSE LET mid == (first + last) \div 2
             q == parserEvents(p, events, first, mid, nResult)
         IN IF q.unresolved \in BOOLEAN
            THEN parserEvents(q, events, mid + 1, last, nResult)
            ELSE q

\* ReadAndVerifySignature: the controller after the events of a signature
\* document have gone through the reader.
ReadAndVerifySignature(c, events, nResult) ==
    parserEvents(Parser(c), events, 1, Len(events), nResult).c

(***************************************************************************)
(* Writing a signature list and reading it back.                           *)
(***************************************************************************)
\* getSignatureInformations (xsecctl.cxx 1364-1376).
getSignatureInformations(c) ==
    [i \in 1..Len(c.m_vInternalSignatureInformations) |->
        c.m_vInternalSignatureInformations[i].signatureInfor]

\* The ODF signature document: the signatures inside the root element the
\* document handler is created with and closed by.
DocumentSignatures(rInformations) ==
    Element("document-signatures",
            <<Attr("xmlns", <<"urn:oasis:names:tc:opendocument:xmlns:digitalsignature:1.0">>)>>,
            Flatten([n \in 1..Len(rInformations) |-> exportSignature(rInformations[n])]))

\* The OOXML signature storage: one part per signature, numbered from 1.
SignatureParts(xRootStorage, rInformations, bTest) ==
    [i \in 1..Len(rInformations) |->
        exportOOXMLSignature(xRootStorage, rInformations[i], bTest)]

\* ReadAndVerifySignatureStorage: the parts are read in their order.
RECURSIVE ReadAndVerifySignatureStorage(_, _, _)
ReadAndVerifySignatureStorage(c, parts, nResult) ==
    IF parts = << >> THEN c
    ELSE ReadAndVerifySignatureStorage(
             ReadAndVerifySignature(c, Head(parts), nResult), Tail(parts), nResult)

\* The root storage of the sample OOXML package: its relationships parts
\* with their relations.
Relation(Id, Type) ==
    <<[First |-> "Id", Second |-> Id], [First |-> "Type", Second |-> Type]>>

RootStorage ==
    (<<"_rels/.rels">> :>
           << Relation(<<"rId1">>, <<"http://schemas.openxmlformats.org/officeDocument/2006/relationships/officeDocument">>),
              Relation(<<"rId2">>, <<"http://schemas.openxmlformats.org/package/2006/relationships/metadata/core-properties">>),
              Relation(<<"rId3">>, <<"http://schemas.openxmlformats.org/officeDocument/2006/relationships/extended-properties">>) >>)
    @@ (<<"word/_rels/document.xml.rels">> :>
           << Relation(<<"rId1">>, <<"http://schemas.openxmlformats.org/officeDocument/2006/relationships/styles">>) >>)

\* Sample records: what a signing run leaves (no date string) and what a
\* read leaves (the date string read), with every kind of reference.
SignatureReferenceInformation(nType, ouURI, ouDigestValue) ==
    [nType |-> nType, ouURI |-> ouURI, ouDigestValue |-> ouDigestValue]

ODFReferences ==
    << SignatureReferenceInformation("XMLSTREAM", <<"content.xml">>, <<"dg1">>),
       SignatureReferenceInformation("BINARYSTREAM", <<"Pictures/a.png">>, <<"dg2">>),
       SignatureReferenceInformation("SAMEDOCUMENT", <<"ID_prop">>, <<"dg3">>) >>

OOXMLReferences ==
    << SignatureReferenceInformation("SAMEDOCUMENT", <<"idPackageObject">>, <<"dg4">>),
       SignatureReferenceInformation("SAMEDOCUMENT", <<"idSignedProperties">>, <<"dg5">>),
       SignatureReferenceInformation("XMLSTREAM", <<"/", "_rels/.rels">> \o RELATIONSHIPS_SUFFIX, <<"dg6">>),
       SignatureReferenceInformation("BINARYSTREAM",
                 <<"/", "word/media/image1.png">> \o <<"?", "ContentType=image/png">>, <<"dg7">>),
       SignatureReferenceInformation("XMLSTREAM",
                 <<"/", "docProps/app.xml">> \o <<"?", "ContentType=application/xml">>, <<"dg8">>) >>

SampleReferences == {ODFReferences, OOXMLReferences}

SampleTimes ==
    { [stDateTime |-> [t |-> 1, NanoSeconds |-> 0], ouDateTime |-> << >>],
      [stDateTime |-> [t |-> MaxTime, NanoSeconds |-> 1], ouDateTime |-> << >>],
      [stDateTime |-> [t |-> MaxTime, NanoSeconds |-> 0], ouDateTime |-> <<ToString(MaxTime)>>] }

SampleRecord(ouSignatureId, ouX509Certificate, ouDescription, time, references) ==
    [ SignatureInformation(0) EXCEPT
          !.ouSignatureId = ouSignatureId,
          !.ouX509IssuerName = <<"CN=issuer">>,
          !.ouX509SerialNumber = <<"4711">>,
          !.ouX509Certificate = ouX509Certificate,
          !.ouCertDigest = <<"certdigest">>,
          !.stDateTime = time.stDateTime,
          !.ouDateTime = time.ouDateTime,
          !.ouDescription = ouDescription,
          !.ouPropertyId = <<"ID_prop">>,
          !.ouSignatureValue = <<"sigvalue">>,
          !.vSignatureReferenceInfors = references ]

SampleRecords ==
    { SampleRecord(<<"ID_sig">>, <<"MIIC">>, <<"comment">>, time, references) :
          time \in SampleTimes, references \in SampleReferences }
    \cup
    { SampleRecord(<< >>, << >>, << >>, time, << >>) :
          time \in {t \in SampleTimes : t.ouDateTime # << >>} }

SampleLists ==
    UNION { [1..n -> SampleRecords] : n \in 0..MaxList }

\* The serializer writes the list: one ODF document, or one OOXML part per
\* signature.  Test mode is a matter of the OOXML form only.
WriteList(format, bTest) ==
    /\ rt.phase = "list"
    /\ format = "ODF" => ~bTest
    /\ format = "OOXML" =>
           \A i \in 1..Len(rt.S) : ~exportOOXMLSignatureThrows(RootStorage, rt.S[i])
    /\ rt' = [rt EXCEPT !.phase = "written",
                        !.format = format,
                        !.bTest = bTest,
                        !.written = IF format = "ODF"
                                    THEN <<DocumentSignatures(rt.S)>>
                                    ELSE SignatureParts(RootStorage, rt.S, bTest)]
    /\ ctl' = ctl
    /\ UNCHANGED <<sax, hc, hs, mgr, hm, ox, ets>>

\* The reader reads what was written, in a new mission.
ReadList(nResult) ==
    /\ rt.phase = "written"
    /\ LET c == ReadAndVerifySignatureStorage(
                    startMissionCtl(ctl, FALSE, TRUE), rt.written, nResult)
       IN /\ ctl' = endMissionCtl(c)
          /\ rt' = [rt EXCEPT !.phase = "read", !.R = getSignatureInformations(c)]
    /\ UNCHANGED <<sax, hc, hs, mgr, hm, ox, ets>>

InitExport ==
    /\ ctl = XSecController
    /\ sax = Pipeline
    /\ hc = NoChainHistory
    /\ hs = NoIdHistory
    /\ \E S \in SampleLists : rt = [NoRoundTrip EXCEPT !.phase = "list", !.S = S]
    /\ mgr = DocumentSignatureManager
    /\ hm = NoManagerHistory
    /\ ox = NoExport
    /\ ets = NoForecast

NextExport ==
    \/ \E format \in {"ODF", "OOXML"}, bTest \in BOOLEAN : WriteList(format, bTest)
    \/ \E nResult \in Results : ReadList(nResult)

SpecExport == InitExport /\ [][NextExport]_vars

(***************************************************************************)
(* Properties of the round trip.                                           *)
(***************************************************************************)
\* The fields of a record the round trip is about.
Content(si) ==
    [ ouSignatureId |-> si.ouSignatureId,
      ouX509IssuerName |-> si.ouX509IssuerName,
      ouX509SerialNumber |-> si.ouX509SerialNumber,
      ouX509Certificate |-> si.ouX509Certificate,
      stDateTime |-> si.stDateTime,
      ouDescription |-> si.ouDescription,
      vSignatureReferenceInfors |-> si.vSignatureReferenceInfors ]

Contents(rInformations) ==
    [i \in 1..Len(rInformations) |-> Content(rInformations[i])]

\* What the OOXML form keeps of a record: the fixed signature id, the issuer
\* and serial number outside test mode, the certificate, the time to the
\* second, the description, and of the references first the same-document
\* ones and then the external ones that are not blacklisted, an external
\* one typed XML only when it is a relationships part.
OOXMLContent(si, bTest) ==
    LET Same(r) == r.nType = "SAMEDOCUMENT"
        External(r) == r.nType # "SAMEDOCUMENT" /\ ~lcl_isOOXMLBlacklist(r.ouURI)
        ext == SelectSeq(si.vSignatureReferenceInfors, External)
    IN [ ouSignatureId |-> <<"idPackageSignature">>,
         ouX509IssuerName |-> IF bTest THEN << >> ELSE si.ouX509IssuerName,
         ouX509SerialNumber |-> IF bTest THEN << >> ELSE si.ouX509SerialNumber,
         ouX509Certificate |-> si.ouX509Certificate,
         stDateTime |-> IF si.ouDateTime # << >> THEN si.stDateTime
                        ELSE [si.stDateTime EXCEPT !.NanoSeconds = 0],
         ouDescription |-> si.ouDescription,
         vSignatureReferenceInfors |->
             SelectSeq(si.vSignatureReferenceInfors, Same)
             \o [i \in 1..Len(ext) |->
                    [ext[i] EXCEPT !.nType =
                         IF endsWith(ext[i].ouURI, RELATIONSHIPS_SUFFIX)
                         THEN "XMLSTREAM" ELSE "BINARYSTREAM"]] ]

exportOOXMLSignatureUntilThrow(xRootStorage, rInformation, bTest) ==
    LET rReferences == rInformation.vSignatureReferenceInfors
        Written(j) == /\ rReferences[j].nType # "SAMEDOCUMENT"
                      /\ ~lcl_isOOXMLBlacklist(rReferences[j].ouURI)
        Throws(j) == /\ Written(j)
                     /\ endsWith(rReferences[j].ouURI, RELATIONSHIPS_SUFFIX)
                     /\ RelationsStreamName(rReferences[j].ouURI) \notin DOMAIN xRootStorage
        first == CHOOSE j \in 1..Len(rReferences) :
                     Throws(j) /\ \A k \in 1..(j - 1) : ~Throws(k)
        nth == Cardinality({k \in 1..first : Written(k)})
        all == exportOOXMLSignature(xRootStorage, rInformation, bTest)
        IsStart(i) == /\ all[i].k = "start" /\ all[i].tag = "Reference"
                      /\ Len(all[i].attrs) = 1
        at == CHOOSE i \in 1..Len(all) :
                  IsStart(i) /\ Cardinality({k \in 1..i : IsStart(k)}) = nth
    IN SubSeq(all, 1, at)

\* Sample root storages: the one of the sample package; one without the
\* relationships part of the document, with a relation of every blacklisted
\* type between other ones; one whose relations have no Type, a Type given
\* twice, or the Id after the Type; one with an empty relationships part.
RELATION_CUSTOM ==
    <<"http://schemas.openxmlformats.org/officeDocument/2006/relationships/custom-properties">>

RELATION_ORIGIN ==
    <<"http://schemas.openxmlformats.org/package/2006/relationships/digital-signature/origin">>

RELATION_CORE ==
    <<"http://schemas.openxmlformats.org/package/2006/relationships/metadata/core-properties">>

RELATION_EXTENDED ==
    <<"http://schemas.openxmlformats.org/officeDocument/2006/relationships/extended-properties">>

SampleStorages ==
    { RootStorage,
      (<<"_rels/.rels">> :>
           << Relation(<<"rId1">>, RELATION_EXTENDED),
              Relation(<<"rId2">>, RELATION_CUSTOM),
              Relation(<<"rId3">>, RELATION_ORIGIN),
              Relation(<<"rId4">>, RELATION_CORE),
              Relation(<<"rId5">>, <<"http://schemas.openxmlformats.org/officeDocument/2006/relationships/officeDocument">>) >>),
      (<<"_rels/.rels">> :>
           << <<[First |-> "Id", Second |-> <<"rId1">>]>>,
              <<[First |-> "Type", Second |-> RELATION_CORE],
                [First |-> "Id", Second |-> <<"rId2">>],
                [First |-> "Type", Second |-> RELATION_CUSTOM]>>,
              <<[First |-> "Type", Second |-> RELATION_ORIGIN],
                [First |-> "Target", Second |-> <<"_xmlsignatures/origin.sigs">>],
                [First |-> "Id", Second |-> <<"rId3">>]>> >>)
        @@ (<<"word/_rels/document.xml.rels">> :> << >>) }

\* Sample references: same-document ones, external ones under each entry of
\* the stream-name blacklist (with and without a content type, and a stream
\* whose name only begins like an entry), and external ones under none,
\* two of them relationships parts.
SampleReferenceInformations ==
    { SignatureReferenceInformation("SAMEDOCUMENT", <<"idPackageObject">>, <<"dg1">>),
      SignatureReferenceInformation("XMLSTREAM",
          <<"/", "word/document.xml", "?", "ContentType=application/xml">>, <<"dg2">>),
      SignatureReferenceInformation("XMLSTREAM", <<"/", "%5BContent_Types%5D.xml">>, <<"dg3">>),
      SignatureReferenceInformation("XMLSTREAM",
          <<"/", "docProps/app.xml", "?", "ContentType=application/xml">>, <<"dg4">>),
      SignatureReferenceInformation("BINARYSTREAM",
          <<"/", "docProps/core.xml", ".bak">>, <<"dg5">>),
      SignatureReferenceInformation("XMLSTREAM",
          <<"/", "_xmlsignatures", "/sig1.xml", "?", "ContentType=application/xml">>, <<"dg6">>),
      SignatureReferenceInformation("XMLSTREAM",
          <<"/", "_rels/.rels">> \o RELATIONSHIPS_SUFFIX, <<"dg7">>),
      SignatureReferenceInformation("XMLSTREAM",
          <<"/", "word/_rels/document.xml.rels">> \o RELATIONSHIPS_SUFFIX, <<"dg8">>) }

SampleReferenceLists ==
    UNION { [1..n -> SampleReferenceInformations] : n \in 0..MaxRefs }

\* exportOOXMLSignature is called: the document handler gets the events of
\* the signature, or those written before the exception.
ExportOOXML ==
    /\ ox.phase = "input"
    /\ LET threw == exportOOXMLSignatureThrows(ox.xRootStorage, ox.rInformation)
       IN ox' = [ox EXCEPT
                    !.phase = "written",
                    !.threw = threw,
                    !.events =
                        IF threw
                        THEN exportOOXMLSignatureUntilThrow(
                                 ox.xRootStorage, ox.rInformation, ox.bTest)
                        ELSE exportOOXMLSignature(
                                 ox.xRootStorage, ox.rInformation, ox.bTest)]
    /\ UNCHANGED <<ctl, sax, hc, hs, rt, mgr, hm, ets>>

InitOOXML ==
    /\ ctl = XSecController
    /\ sax = Pipeline
    /\ hc = NoChainHistory
    /\ hs = NoIdHistory
    /\ rt = NoRoundTrip
    /\ mgr = DocumentSignatureManager
    /\ hm = NoManagerHistory
    /\ ets = NoForecast
    /\ \E xRootStorage \in SampleStorages, rReferences \in SampleReferenceLists,
          bTest \in BOOLEAN :
          ox = [ phase |-> "input",
                 xRootStorage |-> xRootStorage,
                 rInformation |->
                     SampleRecord(<<"ID_sig">>, <<"MIIC">>, <<"comment">>,
                                  [stDateTime |-> [t |-> 1, NanoSeconds |-> 0],
                                   ouDateTime |-> << >>],
                                  rReferences),
                 bTest |-> bTest,
                 threw |-> FALSE,
                 events |-> << >> ]

NextOOXML == ExportOOXML

SpecOOXML == InitOOXML /\ [][NextOOXML]_vars

(***************************************************************************)
(* Properties of the OOXML export.                                         *)
(***************************************************************************)
\* The indices of the Reference start events, and the URI of one.
ReferenceStarts(events) ==
    {i \in 1..Len(events) : events[i].k = "start" /\ events[i].tag = "Reference"}

WrittenURIs(events) ==
    LET IsStart(e) == e.k = "start" /\ e.tag = "Reference"
        starts == SelectSeq(events, IsStart)
    IN [i \in 1..Len(starts) |-> AttrValue(starts[i].attrs, "URI")]

\* C11: no Reference element written by exportOOXMLSignature has a URI that
\* begins with an entry of the stream-name blacklist, and when the export
\* completes the Reference elements are those of the same-document
\* references followed by one for every external reference whose URI begins
\* with no entry, in the order of the list.
C11_NoBlacklistedReference ==
    ox.phase = "written" =>
        LET Entries == { <<"/", "%5BContent_Types%5D.xml">>, <<"/", "docProps/app.xml">>,
                         <<"/", "docProps/core.xml">>, <<"/", "_xmlsignatures">> }
            Matches(uri) == \E entry \in Entries : startsWith(uri, entry)
            rReferences == ox.rInformation.vSignatureReferenceInfors
            Same(r) == r.nType = "SAMEDOCUMENT"
            External(r) == r.nType # "SAMEDOCUMENT" /\ ~Matches(r.ouURI)
            same == SelectSeq(rReferences, Same)
            ext == SelectSeq(rReferences, External)
            uris == WrittenURIs(ox.events)
        IN /\ \A i \in 1..Len(uris) : ~Matches(uris[i])
           /\ ~ox.threw =>
                  uris = [i \in 1..Len(same) |-> <<"#">> \o same[i].ouURI]
                         \o [i \in 1..Len(ext) |-> ext[i].ouURI]

\* C11 witness: a completed export of a list with a blacklisted external
\* reference and one that is not blacklisted, the latter written.
C11_Witness ==
    /\ ox.phase = "written" /\ ~ox.threw
    /\ Len(ox.rInformation.vSignatureReferenceInfors) = 2
    /\ ox.rInformation.vSignatureReferenceInfors[1].ouURI =
           <<"/", "docProps/app.xml", "?", "ContentType=application/xml">>
    /\ ox.rInformation.vSignatureReferenceInfors[2].ouURI =
           <<"/", "word/document.xml", "?", "ContentType=application/xml">>
    /\ WrittenURIs(ox.events) =
           << <<"/", "word/document.xml", "?", "ContentType=application/xml">> >>

\* The SourceIds of the RelationshipReference elements inside the Reference
\* element started at event i, when that element was ended.
RelationshipSourceIds(events, i) ==
    LET ends == {k \in (i + 1)..Len(events) :
                    events[k].k = "end" /\ events[k].tag = "Reference"}
        last == CHOOSE k \in ends : \A m \in ends : k <= m
        IsRelationshipReference(e) ==
            e.k = "start" /\ e.tag = "mdssi:RelationshipReference"
        inside == SelectSeq(SubSeq(events, i, last), IsRelationshipReference)
    IN [n \in 1..Len(inside) |-> AttrValue(inside[n].attrs, "SourceId")]

\* C12: the Reference element written for a relationships part holds one
\* RelationshipReference for each relation of the part whose Type is none
\* of the three blacklisted relation types, with the relation's Id as
\* SourceId, in the order of the relations, and none for any other.
C12_RelationshipReferences ==
    ox.phase = "written" =>
        \A i \in ReferenceStarts(ox.events) :
            LET uri == AttrValue(ox.events[i].attrs, "URI")
                aRelationsInfo == ox.xRootStorage[RelationsStreamName(uri)]
                Kept(rPairs) ==
                    PairValue(rPairs, "Type") \notin
                        {RELATION_EXTENDED, RELATION_CORE, RELATION_ORIGIN}
                kept == SelectSeq(aRelationsInfo, Kept)
            IN (/\ endsWith(uri, RELATIONSHIPS_SUFFIX)
                /\ \E k \in (i + 1)..Len(ox.events) :
                       ox.events[k].k = "end" /\ ox.events[k].tag = "Reference")
               => RelationshipSourceIds(ox.events, i) =
                      [n \in 1..Len(kept) |-> PairValue(kept[n], "Id")]

\* C12 witness: a relationships part with relations of all three blacklisted
\* types and two others was exported; the two others are referenced.
C12_Witness ==
    /\ ox.phase = "written"
    /\ \E i \in ReferenceStarts(ox.events) :
          /\ AttrValue(ox.events[i].attrs, "URI") = <<"/", "_rels/.rels">> \o RELATIONSHIPS_SUFFIX
          /\ Len(ox.xRootStorage[<<"_rels/.rels">>]) = 5
          /\ RelationshipSourceIds(ox.events, i) = << <<"rId2">>, <<"rId5">> >>

\* The elements below xd:QualifyingProperties.
SignedPropertiesTags ==
    { "xd:SignedProperties", "xd:SignedSignatureProperties", "xd:SigningTime",
      "xd:SigningCertificate", "xd:Cert", "xd:CertDigest", "xd:IssuerSerial",
      "X509IssuerName", "X509SerialNumber", "xd:SignaturePolicyIdentifier",
      "xd:SignaturePolicyImplied" }

\* C13 as stated: with LO_TESTNAME set, exportOOXMLSignature emits no
\* xd:QualifyingProperties element and none of its descendants.
C13_Original ==
    (ox.phase = "written" /\ ox.bTest) =>
        \A i \in 1..Len(ox.events) :
            ox.events[i].tag \notin {"xd:QualifyingProperties"} \cup SignedPropertiesTags

\* C13 amended: with LO_TESTNAME set, a completed exportOOXMLSignature emits
\* the xd:QualifyingProperties element with its two attributes and nothing
\* in it, its end following its start, and none of its descendants.
C13_EmptyQualifyingProperties ==
    (ox.phase = "written" /\ ox.bTest) =>
        /\ \A i \in 1..Len(ox.events) : ox.events[i].tag \notin SignedPropertiesTags
        /\ ~ox.threw =>
              \E i \in 1..(Len(ox.events) - 1) :
                  /\ ox.events[i].k = "start"
                  /\ ox.events[i].tag = "xd:QualifyingProperties"
                  /\ ox.events[i].attrs =
                         <<Attr("xmlns:xd", NS_XD),
                           Attr("Target", <<"#", "idPackageSignature">>)>>
                  /\ ox.events[i + 1].k = "end"
                  /\ ox.events[i + 1].tag = "xd:QualifyingProperties"
                  /\ \A j \in 1..Len(ox.events) :
                         ox.events[j].tag = "xd:QualifyingProperties" => j \in {i, i + 1}

\* C13 witness: a completed export in test mode of a record that has an
\* issuer and a serial number to write.
C13_Witness ==
    /\ ox.phase = "written" /\ ox.bTest /\ ~ox.threw
    /\ ox.rInformation.ouX509IssuerName # << >>
    /\ ox.rInformation.ouX509SerialNumber # << >>
    /\ \E i \in 1..Len(ox.events) : ox.events[i].tag = "xd:QualifyingProperties"

(***************************************************************************)
(* DocumentSignatureManager.  A stream or storage reference is a record    *)
(* with is (the reference is set) and what the stream or storage holds.    *)
(***************************************************************************)
PropertyValue(Name, Value) == [Name |-> Name, Value |-> Value]

\* The value of the last property named Name of a manifest entry
\* (documentsignaturemanager.cxx 73-83), empty when there is none.
PropertyOf(entry, Name) ==
    LET hits == {j \in 1..Len(entry) : entry[j].Name = Name}
    IN IF hits = {} THEN << >>
       ELSE entry[CHOOSE j \in hits : \A k \in hits : k <= j].Value

lastIndexOf(s, ch) ==
    LET hits == {i \in 1..Len(s) : s[i] = ch}
    IN IF hits = {} THEN -1
       ELSE (CHOOSE i \in hits : \A j \in hits : j <= i) - 1

\* isXML (documentsignaturemanager.cxx 55-110): in test mode everything is
\* XML; else the first manifest entry for the path decides (media type
\* text/xml and no digest), and without an entry the extension does.
isXML(m_manifest, rURI, bTest) ==
    IF bTest THEN TRUE
    ELSE LET found == {i \in 1..Len(m_manifest) :
                          PropertyOf(m_manifest[i], "FullPath") = rURI}
         IN IF found # {}
            THEN LET entry == m_manifest[CHOOSE i \in found : \A k \in found : i <= k]
                 IN /\ PropertyOf(entry, "MediaType") = <<"text/xml">>
                    /\ ~\E j \in 1..Len(entry) : entry[j].Name = "Digest"
            ELSE LET nSep == lastIndexOf(rURI, ".")
                 IN /\ nSep # -1
                    /\ SubSeq(rURI, nSep + 2, Len(rURI)) \in {<<"xml">>, <<"XML">>, <<"Xml">>}

\* ImplOpenSignatureStream (documentsignaturemanager.cxx 118-188).  The
\* result says whether the call threw, whether it made a new temporary
\* stream, and whether the helper's stream and storage references are set.
\* fail names the step at which the environment fails: "create" the
\* temporary file, "storage" the storage over it, "open" the document's
\* signature stream.
ImplOpenSignatureStream(g, bTruncate, bTempStream, fail) ==
    LET bOOXML == g.nStorageFormat = "OOXML"
        NewStream == [NoStream EXCEPT !.is = TRUE]
        NewStorage == [NoStorage EXCEPT !.is = TRUE]
        g1 == [g EXCEPT !.mxTempSignatureStream = NewStream]
        g2 == IF bOOXML THEN [g1 EXCEPT !.mxTempSignatureStorage = NewStorage] ELSE g1
        Result(gr, threw, bAcquired, bStream, bStorage) ==
            [ g |-> gr, threw |-> threw, bAcquired |-> bAcquired,
              xSignatureStream |-> bStream, xSignatureStorage |-> bStorage ]
    IN IF bTempStream
       THEN IF bTruncate
            THEN IF fail = "create" THEN Result(g, TRUE, FALSE, FALSE, FALSE)
                 ELSE IF bOOXML /\ fail = "storage" THEN Result(g1, TRUE, TRUE, FALSE, FALSE)
                 ELSE Result(g2, FALSE, TRUE, TRUE, bOOXML)
            ELSE IF ~g.mxTempSignatureStream.is
                 THEN Result(g, TRUE, FALSE, FALSE, FALSE)
                 ELSE Result(g, FALSE, FALSE, TRUE, bOOXML /\ g.mxTempSignatureStorage.is)
       ELSE IF fail = "open" THEN Result(g, TRUE, FALSE, FALSE, FALSE)
            ELSE Result(g, FALSE, FALSE, ~bOOXML /\ g.store.is, bOOXML /\ g.store.is)

\* The i-th signature of the document the manager opens.
DocumentRecord(i, nStorageFormat) ==
    SampleRecord(<<"ID_doc", ToString(i)>>,
                 IF i % 2 = 1 THEN <<"MIIC", ToString(i)>> ELSE << >>,
                 IF i % 2 = 0 THEN <<"comment", ToString(i)>> ELSE << >>,
                 [stDateTime |-> [t |-> i % (MaxTime + 1), NanoSeconds |-> i % 2],
                  ouDateTime |-> << >>],
                 IF nStorageFormat = "OOXML" THEN OOXMLReferences ELSE ODFReferences)

DocumentRecords(n, nStorageFormat) ==
    [i \in 1..n |-> DocumentRecord(i, nStorageFormat)]

\* What the signature stream (one document) or storage (the parts) of the
\* document holds.
StoreData(g) ==
    IF g.nStorageFormat = "OOXML"
    THEN SignatureParts(RootStorage,
                        DocumentRecords(g.store.nSignatures, g.nStorageFormat), g.bTest)
    ELSE DocumentSignatures(DocumentRecords(g.store.nSignatures, g.nStorageFormat))

\* The certificates a caller can pass: none, one whose serial number has no
\* string form, a good one.
Certificates ==
    { [is |-> FALSE, IssuerName |-> << >>, SerialNumber |-> << >>, Encoded |-> << >>],
      [is |-> TRUE, IssuerName |-> <<"CN=issuer">>, SerialNumber |-> << >>,
       Encoded |-> <<"MIIC">>],
      [is |-> TRUE, IssuerName |-> <<"CN=issuer">>, SerialNumber |-> <<"4711">>,
       Encoded |-> <<"MIIC">>] }

\* The document the manager signs: its manifest and the elements
\* CreateElementList and AppendContentTypes give for it.
Manifest(nStorageFormat) ==
    IF nStorageFormat = "OOXML" THEN << >>
    ELSE << << PropertyValue("FullPath", <<"content", ".", "xml">>),
               PropertyValue("MediaType", <<"text/xml">>) >>,
            << PropertyValue("FullPath", <<"Pictures/a", ".", "png">>),
               PropertyValue("MediaType", <<"image/png">>) >> >>

CreateElementList(nStorageFormat) ==
    IF nStorageFormat = "OOXML"
    THEN << <<"/", "word/document.xml", "?", "ContentType=application/xml">>,
            <<"/", "_rels/.rels">> \o RELATIONSHIPS_SUFFIX,
            <<"/", "docProps/app.xml", "?", "ContentType=application/xml">> >>
    ELSE << <<"content", ".", "xml">>, <<"Pictures/a", ".", "png">>,
            <<"META-INF/manifest", ".", "xml">>, <<"mimetype">> >>

\* The record the signing calls of add build in the controller for the new
\* id (SetX509Certificate, AddForSigning, SetDateTime, SetDescription) and
\* the signature creation completes (ids, digests, signature value).
NewSignature(nSecurityId, xCert, aElements, abBinaryMode, stDateTime, rDescription, bOOXML) ==
    LET streams == [n \in 1..Len(aElements) |->
                       SignatureReferenceInformation(
                           IF abBinaryMode[n] THEN "BINARYSTREAM" ELSE "XMLSTREAM",
                           aElements[n], <<"dg", ToString(n)>>)]
        properties ==
            IF bOOXML
            THEN << SignatureReferenceInformation("SAMEDOCUMENT", <<"idPackageObject">>, <<"dgp">>),
                    SignatureReferenceInformation("SAMEDOCUMENT", <<"idOfficeObject">>, <<"dgo">>),
                    SignatureReferenceInformation("SAMEDOCUMENT", <<"idSignedProperties">>, <<"dgs">>) >>
            ELSE << SignatureReferenceInformation("SAMEDOCUMENT",
                        <<"ID_prop", ToString(nSecurityId)>>, <<"dgp">>) >>
    IN [ SignatureInformation(nSecurityId) EXCEPT
             !.ouSignatureId = <<"ID_sig", ToString(nSecurityId)>>,
             !.ouPropertyId = <<"ID_prop", ToString(nSecurityId)>>,
             !.ouX509IssuerName = xCert.IssuerName,
             !.ouX509SerialNumber = xCert.SerialNumber,
             !.ouX509Certificate = xCert.Encoded,
             !.ouCertDigest = <<"certdigest">>,
             !.stDateTime = stDateTime,
             !.ouDescription = rDescription,
             !.ouSignatureValue = <<"sigvalue", ToString(nSecurityId)>>,
             !.vSignatureReferenceInfors = streams \o properties ]

DocumentHeader ==
    startElement("document-signatures",
        <<Attr("xmlns", <<"urn:oasis:names:tc:opendocument:xmlns:digitalsignature:1.0">>)>>)

ExportSignatures(rInformations) ==
    Flatten([n \in 1..Len(rInformations) |-> exportSignature(rInformations[n])])

\* The events a temporary stream holds, and the parts a temporary storage
\* holds.
StreamData(xStream) ==
    (IF xStream.bHeader THEN DocumentHeader ELSE << >>)
    \o ExportSignatures(xStream.exported)
    \o (IF xStream.bDocumentClosed THEN endElement("document-signatures") ELSE << >>)

StorageParts(xStorage, bTest) == SignatureParts(RootStorage, xStorage.exported, bTest)

\* The writing part shared by add and remove (documentsignaturemanager.cxx
\* 245-287, 300-332): rInformations are exported to the temporary stream or
\* storage opened by the call.  fail names the step at which writing fails:
\* "write" an export, "commit" the commit of the storage.
WriteTemp(g, rInformations, fail) ==
    IF g.nStorageFormat # "OOXML"
    THEN IF fail = "write"
         THEN [ g |-> [g EXCEPT !.mxTempSignatureStream.bHeader = TRUE],
                threw |-> TRUE ]
         ELSE [ g |-> [g EXCEPT !.mxTempSignatureStream.bHeader = TRUE,
                                !.mxTempSignatureStream.exported = rInformations,
                                !.mxTempSignatureStream.bDocumentClosed = TRUE],
                threw |-> FALSE ]
    ELSE LET g1 == [g EXCEPT !.mxTempSignatureStorage.nRelations = Len(rInformations)]
             throws == \/ fail = "write"
                       \/ \E i \in 1..Len(rInformations) :
                              exportOOXMLSignatureThrows(RootStorage, rInformations[i])
             g2 == [g1 EXCEPT !.mxTempSignatureStorage.exported = rInformations]
         IN IF throws THEN [g |-> g1, threw |-> TRUE]
            ELSE IF fail = "commit" THEN [g |-> g2, threw |-> TRUE]
            ELSE [ g |-> [g2 EXCEPT !.mxTempSignatureStorage.bCommitted = TRUE,
                                    !.mxTempSignatureStream.bOutputClosed = TRUE],
                   threw |-> FALSE ]

\* A variant of add that writes the new signature before the old ones.
add_NewFirst(g, c, xCert, rDescription, stDateTime, fail) ==
    IF ~xCert.is \/ xCert.SerialNumber = << >>
    THEN [g |-> g, c |-> c, outcome |-> "false", bAcquired |-> FALSE]
    ELSE LET c1 == startMissionCtl(c, FALSE, TRUE)
             r  == getNewSecurityId(c1)
             aElements == CreateElementList(g.nStorageFormat)
             abBinaryMode == [n \in 1..Len(aElements) |->
                                 ~isXML(Manifest(g.nStorageFormat), aElements[n], g.bTest)]
             si == NewSignature(r.id, xCert, aElements, abBinaryMode, stDateTime,
                                rDescription, g.nStorageFormat = "OOXML")
             c2 == [r.c EXCEPT !.m_vInternalSignatureInformations =
                                   Append(@, [signatureInfor |-> si])]
             o  == ImplOpenSignatureStream(g, TRUE, TRUE, fail)
             w  == WriteTemp(o.g, <<si>> \o o.g.maCurrentSignatureInformations, fail)
         IN IF o.threw
            THEN [g |-> o.g, c |-> c2, outcome |-> "threw", bAcquired |-> o.bAcquired]
            ELSE IF w.threw
            THEN [g |-> w.g, c |-> c2, outcome |-> "threw", bAcquired |-> o.bAcquired]
            ELSE [g |-> w.g, c |-> endMissionCtl(c2), outcome |-> "true",
                  bAcquired |-> o.bAcquired]

\* add (documentsignaturemanager.cxx 190-291).
add(g, c, xCert, rDescription, stDateTime, fail) ==
    IF ~xCert.is \/ xCert.SerialNumber = << >>
    THEN [g |-> g, c |-> c, outcome |-> "false", bAcquired |-> FALSE]
    ELSE LET c1 == startMissionCtl(c, FALSE, TRUE)
             r  == getNewSecurityId(c1)
             aElements == CreateElementList(g.nStorageFormat)
             abBinaryMode == [n \in 1..Len(aElements) |->
                                 ~isXML(Manifest(g.nStorageFormat), aElements[n], g.bTest)]
             si == NewSignature(r.id, xCert, aElements, abBinaryMode, stDateTime,
                                rDescription, g.nStorageFormat = "OOXML")
             c2 == [r.c EXCEPT !.m_vInternalSignatureInformations =
                                   Append(@, [signatureInfor |-> si])]
             o  == ImplOpenSignatureStream(g, TRUE, TRUE, fail)
             w  == WriteTemp(o.g, Append(o.g.maCurrentSignatureInformations, si), fail)
         IN IF o.threw
            THEN [g |-> o.g, c |-> c2, outcome |-> "threw", bAcquired |-> o.bAcquired]
            ELSE IF w.threw
            THEN [g |-> w.g, c |-> c2, outcome |-> "threw", bAcquired |-> o.bAcquired]
            ELSE [g |-> w.g, c |-> endMissionCtl(c2), outcome |-> "true",
                  bAcquired |-> o.bAcquired]

RemoveAt(s, nPosition) ==
    SubSeq(s, 1, nPosition) \o SubSeq(s, nPosition + 2, Len(s))

\* A removal that drops the first record whatever the position asked for.
remove_First(g, c, nPosition, fail) ==
    LET g0 == [g EXCEPT !.maCurrentSignatureInformations = Tail(@)]
        o  == ImplOpenSignatureStream(g0, TRUE, TRUE, fail)
        w  == WriteTemp(o.g, o.g.maCurrentSignatureInformations, fail)
    IN [g |-> w.g, c |-> c, outcome |-> "done", bAcquired |-> o.bAcquired]

\* remove (documentsignaturemanager.cxx 293-333).
remove(g, c, nPosition, fail) ==
    LET g0 == [g EXCEPT !.maCurrentSignatureInformations = RemoveAt(@, nPosition)]
        o  == ImplOpenSignatureStream(g0, TRUE, TRUE, fail)
        w  == WriteTemp(o.g, o.g.maCurrentSignatureInformations, fail)
    IN IF o.threw
       THEN [g |-> o.g, c |-> c, outcome |-> "threw", bAcquired |-> o.bAcquired]
       ELSE IF w.threw
       THEN [g |-> w.g, c |-> c, outcome |-> "threw", bAcquired |-> o.bAcquired]
       ELSE [g |-> w.g, c |-> c, outcome |-> "done", bAcquired |-> o.bAcquired]

\* read (documentsignaturemanager.cxx 335-352).
read(g, c, bUseTempStream, nResult, fail) ==
    LET g0 == [g EXCEPT !.maCurrentSignatureInformations = << >>]
        c1 == startMissionCtl(c, FALSE, TRUE)
        o  == ImplOpenSignatureStream(g0, FALSE, bUseTempStream, fail)
        c2 == IF g0.nStorageFormat # "OOXML" /\ o.xSignatureStream
              THEN ReadAndVerifySignature(
                       c1, IF bUseTempStream THEN StreamData(g0.mxTempSignatureStream)
                           ELSE StoreData(g0), nResult)
              ELSE IF g0.nStorageFormat = "OOXML" /\ o.xSignatureStorage
              THEN ReadAndVerifySignatureStorage(
                       c1, IF bUseTempStream
                           THEN StorageParts(g0.mxTempSignatureStorage, g0.bTest)
                           ELSE StoreData(g0), nResult)
              ELSE c1
        c3 == endMissionCtl(c2)
    IN IF o.threw
       THEN [g |-> g0, c |-> c1, outcome |-> "threw", bAcquired |-> FALSE]
       ELSE [ g |-> [g0 EXCEPT !.maCurrentSignatureInformations =
                                   getSignatureInformations(c3)],
              c |-> c3, outcome |-> "done", bAcquired |-> FALSE ]

(***************************************************************************)
(* Calls on the manager.                                                   *)
(***************************************************************************)
\* The time of the system clock at a signing.
SystemTime == [t |-> MaxTime, NanoSeconds |-> 1]

Failures(op, nStorageFormat) ==
    IF op = "read" THEN {"none", "open"}
    ELSE {"none", "create", "write"}
         \cup (IF nStorageFormat = "OOXML" THEN {"storage", "commit"} ELSE {})

ManagerHistory(op, r, bUseTempStream, nPosition) ==
    [ op |-> op, outcome |-> r.outcome,
      before |-> mgr.maCurrentSignatureInformations,
      bUseTempStream |-> bUseTempStream,
      bAcquired |-> r.bAcquired,
      nPosition |-> nPosition,
      removed |-> IF op = "remove" /\ r.outcome = "done"
                  THEN [valid |-> TRUE, nPosition |-> nPosition,
                        before |-> mgr.maCurrentSignatureInformations]
                  ELSE IF op = "read" THEN hm.removed
                  ELSE NoManagerHistory.removed,
      steps |-> hm.steps + 1 ]

Add(xCert, rDescription, fail) ==
    /\ hm.steps < MaxOps
    /\ fail \in Failures("add", mgr.nStorageFormat)
    /\ LET r == add(mgr, ctl, xCert, rDescription, SystemTime, fail)
       IN /\ mgr' = r.g
          /\ ctl' = r.c
          /\ hm' = ManagerHistory("add", r, FALSE, 0)
    /\ UNCHANGED <<sax, hc, hs, rt, ox, ets>>

Remove(nPosition, fail) ==
    /\ hm.steps < MaxOps
    /\ fail \in Failures("remove", mgr.nStorageFormat)
    /\ nPosition < Len(mgr.maCurrentSignatureInformations)
    /\ LET r == remove(mgr, ctl, nPosition, fail)
       IN /\ mgr' = r.g
          /\ ctl' = r.c
          /\ hm' = ManagerHistory("remove", r, FALSE, nPosition)
    /\ UNCHANGED <<sax, hc, hs, rt, ox, ets>>

Read(bUseTempStream, nResult, fail) ==
    /\ hm.steps < MaxOps
    /\ fail \in Failures("read", mgr.nStorageFormat)
    /\ bUseTempStream => fail = "none"
    /\ LET r == read(mgr, ctl, bUseTempStream, nResult, fail)
       IN /\ mgr' = r.g
          /\ ctl' = r.c
          /\ hm' = ManagerHistory("read", r, bUseTempStream, 0)
    /\ UNCHANGED <<sax, hc, hs, rt, ox, ets>>

InitMgr ==
    /\ ctl = XSecController
    /\ sax = Pipeline
    /\ hc = NoChainHistory
    /\ hs = NoIdHistory
    /\ rt = NoRoundTrip
    /\ hm = NoManagerHistory
    /\ ox = NoExport
    /\ ets = NoForecast
    /\ \E nStorageFormat \in {"ODF", "OOXML"}, bTest \in BOOLEAN, n \in 0..MaxDoc :
          mgr = [ DocumentSignatureManager EXCEPT
                      !.nStorageFormat = nStorageFormat,
                      !.bTest = bTest,
                      !.store = [is |-> n > 0, nSignatures |-> n] ]

NextMgr ==
    \/ \E xCert \in Certificates, fail \in {"none", "create", "storage", "write", "commit"} :
           Add(xCert, <<"comment">>, fail)
    \/ \E nPosition \in 0..(MaxDoc + MaxOps),
          fail \in {"none", "create", "storage", "write", "commit"} :
           Remove(nPosition, fail)
    \/ \E bUseTempStream \in BOOLEAN, fail \in {"none", "open"} :
           Read(bUseTempStream, "OPERATION_SUCCEEDED", fail)

SpecMgr == InitMgr /\ [][NextMgr]_vars

(***************************************************************************)
(* Properties of the manager.                                              *)
(***************************************************************************)
List == mgr.maCurrentSignatureInformations

\* C4 as stated: a successful add appends exactly one record to the
\* manager's current signature list and leaves the records before it and
\* their order as they were.
C4_Original ==
    (hm.op = "add" /\ hm.outcome = "true") =>
        /\ Len(List) = Len(hm.before) + 1
        /\ SubSeq(List, 1, Len(hm.before)) = hm.before

\* C5: after a remove(i) on a list of n records, a read of the temporary
\* stream yields the n-1 other records, in their order, in the ODF and in
\* the OOXML format.
C5_RemoveThenRead ==
    (hm.op = "read" /\ hm.outcome = "done" /\ hm.bUseTempStream /\ hm.removed.valid) =>
        Contents(List) = Contents(RemoveAt(hm.removed.before, hm.removed.nPosition))

\* C5 witness: the middle one of three records was removed from an OOXML
\* list and the temporary storage was read back.
C5_Witness ==
    /\ hm.op = "read" /\ hm.outcome = "done" /\ hm.bUseTempStream /\ hm.removed.valid
    /\ mgr.nStorageFormat = "OOXML"
    /\ Len(hm.removed.before) = 3 /\ hm.removed.nPosition = 1
    /\ Len(List) = 2
    /\ Content(List[1]) # Content(List[2])

\* C6 as stated: when add, remove or read fails, the manager's current
\* signature list is the same as before the call.
C6_Original ==
    hm.outcome \in {"false", "threw"} => List = hm.before

\* C7 as stated: a temporary stream or storage acquired during add or remove
\* is committed and closed on every exit path: the ODF document written to
\* the stream is closed, the OOXML storage is committed and the output of
\* its stream is closed.
C7_Original ==
    (hm.op \in {"add", "remove"} /\ hm.bAcquired) =>
        IF mgr.nStorageFormat = "OOXML"
        THEN /\ mgr.mxTempSignatureStorage.bCommitted
             /\ mgr.mxTempSignatureStream.bOutputClosed
        ELSE mgr.mxTempSignatureStream.bDocumentClosed

(***************************************************************************)
(* The exponential-smoothing forecast (sc/source/core/tool/interpr8.cxx).  *)
(*                                                                         *)
(* A double is modelled as an exact fraction [n, d] in lowest terms with   *)
(* d > 0; d = 0 stands for the infinities (n = 1, n = -1) and for NaN      *)
(* (n = 0).  Rounding and the sign of zero are not modelled.  X values are *)
(* whole day numbers and are kept as integers.  The operations cancel      *)
(* common factors before they multiply, to keep the products small.        *)
(***************************************************************************)
RECURSIVE Gcd(_, _)
Gcd(a, b) == IF b = 0 THEN a ELSE Gcd(b, a % b)

Sign(n) == IF n > 0 THEN 1 ELSE IF n < 0 THEN -1 ELSE 0

Magnitude(n) == IF n < 0 THEN -n ELSE n

Fraction(n, d) ==
    IF d = 0 THEN [n |-> Sign(n), d |-> 0]
    ELSE LET g == Gcd(Magnitude(n), Magnitude(d))
         IN [n |-> Sign(d) * (n \div g), d |-> Magnitude(d) \div g]

Double(n) == [n |-> n, d |-> 1]

NaN == [n |-> 0, d |-> 0]

isNan(a) == a.d = 0 /\ a.n = 0

isInf(a) == a.d = 0 /\ a.n # 0

fNeg(a) == [n |-> -a.n, d |-> a.d]

fAdd(a, b) ==
    IF isNan(a) \/ isNan(b) THEN NaN
    ELSE IF isInf(a) /\ isInf(b) THEN (IF a.n = b.n THEN a ELSE NaN)
    ELSE IF isInf(a) THEN a
    ELSE IF isInf(b) THEN b
    ELSE LET g == Gcd(a.d, b.d)
         IN Fraction(a.n * (b.d \div g) + b.n * (a.d \div g), a.d * (b.d \div g))

fSub(a, b) == fAdd(a, fNeg(b))

fMul(a, b) ==
    IF isNan(a) \/ isNan(b) THEN NaN
    ELSE IF isInf(a) \/ isInf(b)
         THEN [n |-> Sign(a.n) * Sign(b.n), d |-> 0]
    ELSE LET g1 == Gcd(Magnitude(a.n), b.d)
             g2 == Gcd(Magnitude(b.n), a.d)
         IN Fraction((a.n \div g1) * (b.n \div g2), (a.d \div g2) * (b.d \div g1))

fDiv(a, b) ==
    IF isNan(a) \/ isNan(b) THEN NaN
    ELSE IF isInf(b) THEN (IF isInf(a) THEN NaN ELSE Double(0))
    ELSE IF isInf(a) THEN [n |-> a.n * (IF b.n < 0 THEN -1 ELSE 1), d |-> 0]
    ELSE IF b.n = 0 THEN Fraction(a.n, 0)
    ELSE LET g1 == Gcd(Magnitude(a.n), Magnitude(b.n))
             g2 == Gcd(a.d, b.d)
         IN Fraction((a.n \div g1) * (b.d \div g2), (a.d \div g2) * (b.n \div g1))

fLess(a, b) ==
    IF isNan(a) \/ isNan(b) THEN FALSE
    ELSE IF isInf(a) \/ isInf(b)
         THEN (IF isInf(a) /\ isInf(b) THEN a.n < b.n
               ELSE IF isInf(a) THEN a.n < 0 ELSE b.n > 0)
    ELSE LET g == Gcd(a.d, b.d)
         IN a.n * (b.d \div g) < b.n * (a.d \div g)

fEq(a, b) == ~isNan(a) /\ ~isNan(b) /\ a = b

fabs(a) == [n |-> Magnitude(a.n), d |-> a.d]

\* The date a day number stands for: Date aNullDate + x with the null date
\* of the formatter, 1899-12-30, in the Gregorian calendar.  NullDate is
\* that date counted in days from 1970-01-01.
NullDate == -25569

Date(x) ==
    LET z == x + NullDate + 719468
        era == z \div 146097
        doe == z - era * 146097
        yoe == (doe - doe \div 1460 + doe \div 36524 - doe \div 146096) \div 365
        doy == doe - (365 * yoe + yoe \div 4 - yoe \div 100)
        mp == (5 * doy + 2) \div 153
        m == IF mp < 10 THEN mp + 3 ELSE mp - 9
    IN [ Year |-> yoe + era * 400 + (IF m <= 2 THEN 1 ELSE 0),
         Month |-> m,
         Day |-> doy - (153 * mp + 2) \div 5 + 1 ]

\* std::numeric_limits<double>::max(), as a whole number above every X and
\* every step of the model.
DBL_MAX == 1000000000

\* fmod of whole numbers: the remainder has the sign of the dividend; a
\* zero divisor gives NaN.
fmod(x, y) ==
    IF y = 0 THEN NaN
    ELSE Double(Sign(x) * (Magnitude(x) % Magnitude(y)))

RECURSIVE fSum(_)
fSum(values) ==
    IF values = << >> THEN Double(0) ELSE fAdd(Head(values), fSum(Tail(values)))

\* Element i of a vector or array, counted from 0 as in the source.
At(s, i) == s[i + 1]

Erase(s, i) == SubSeq(s, 1, i) \o SubSeq(s, i + 2, Len(s))

Insert(s, i, e) == SubSeq(s, 1, i) \o <<e>> \o SubSeq(s, i + 1, Len(s))

\* struct DataPoint (interpr8.cxx 21-27).
DataPoint(rX, rY) == [X |-> rX, Y |-> rY]

\* A variant of the sort that leaves the range as given.
SortByX_Unsorted(range) == range

\* sort( maRange.begin(), maRange.end(), lcl_SortByX ) (interpr8.cxx 29,
\* 159): ascending X.
RECURSIVE SortByX(_)
SortByX(range) ==
    IF range = << >> THEN << >>
    ELSE LET p == range[Len(range)]
             sorted == SortByX(SubSeq(range, 1, Len(range) - 1))
             Before(q) == q.X <= p.X
             After(q) == q.X > p.X
         IN SelectSeq(sorted, Before) \o <<p>> \o SelectSeq(sorted, After)

\* The calculation object after construction (interpr8.cxx 128-139).  The
\* constructor leaves mnSmplInPrd, mfStepSize, mnErrorValue, bAdditive,
\* bEDS, the smoothing parameters and the accuracy indicators unset; the
\* arrays are null.  aPerIdxSet is the set of the indices of mpPerIdx that
\* hold a value: an element outside it holds what the allocation left.
ScETSForecastCalculation(nSize) ==
    [ maRange |-> << >>,
      mnCount |-> nSize,
      mbInitialised |-> FALSE,
      mnMonthDay |-> 0,
      mpBase |-> << >>,
      mpTrend |-> << >>,
      mpPerIdx |-> << >>,
      mpForecast |-> << >>,
      mnSmplInPrd |-> 0,
      mfStepSize |-> 0,
      mnErrorValue |-> "unset",
      bAdditive |-> FALSE,
      bEDS |-> FALSE,
      mfAlpha |-> "unset",
      mfBeta |-> "unset",
      mfGamma |-> "unset",
      mfMSE |-> "unset",
      aPerIdxSet |-> {} ]

\* The mean error of one period length (interpr8.cxx 534-542).
MeanError(o, nPeriodLen) ==
    LET nPeriods == o.mnCount \div nPeriodLen
        nStart == o.mnCount - (nPeriods * nPeriodLen) + 1
        n == (o.mnCount - nPeriodLen) - nStart
        Y(i) == At(o.maRange, i).Y
    IN fDiv(fSum([k \in 1..(IF n > 0 THEN n ELSE 0) |->
                    LET i == nStart + k - 1
                    IN fabs(fSub(fSub(Y(i), Y(i - 1)),
                                 fSub(Y(nPeriodLen + i), Y(nPeriodLen + i - 1))))]),
            Double((nPeriods - 1) * nPeriodLen - 1))

\* A variant of the search that lets an equal error replace the best one.
RECURSIVE CalcPeriodLenFrom_OrEqual(_, _, _, _)
CalcPeriodLenFrom_OrEqual(o, nPeriodLen, nBestVal, fBestME) ==
    IF nPeriodLen <= 1 THEN nBestVal
    ELSE LET fMeanError == MeanError(o, nPeriodLen)
         IN IF fLess(fMeanError, fBestME) \/ fEq(fMeanError, fBestME)
            THEN CalcPeriodLenFrom_OrEqual(o, nPeriodLen - 1, nPeriodLen, fMeanError)
            ELSE CalcPeriodLenFrom_OrEqual(o, nPeriodLen - 1, nBestVal, fBestME)

\* The loop of CalcPeriodLen from nPeriodLen down to 2 (interpr8.cxx
\* 532-549).
RECURSIVE CalcPeriodLenFrom(_, _, _, _)
CalcPeriodLenFrom(o, nPeriodLen, nBestVal, fBestME) ==
    IF nPeriodLen <= 1 THEN nBestVal
    ELSE LET fMeanError == MeanError(o, nPeriodLen)
         IN IF fLess(fMeanError, fBestME) \/ fEq(fMeanError, Double(0))
            THEN CalcPeriodLenFrom(o, nPeriodLen - 1, nPeriodLen, fMeanError)
            ELSE CalcPeriodLenFrom(o, nPeriodLen - 1, nBestVal, fBestME)

\* CalcPeriodLen (interpr8.cxx 527-551).
CalcPeriodLen(o) ==
    CalcPeriodLenFrom(o, o.mnCount \div 2, o.mnCount, Double(DBL_MAX))

\* The month detection (interpr8.cxx 193-204): the day of month of the
\* first X when every X that is another date falls on the same day of month,
\* else 0.
MonthDay(o) ==
    LET aDate == Date(At(o.maRange, 0).X)
    IN IF \A i \in 1..(o.mnCount - 1) :
              LET aDate1 == Date(At(o.maRange, i).X)
              IN aDate # aDate1 => aDate1.Day = aDate.Day
       THEN aDate.Day
       ELSE 0

\* The while loops of the aggregation (interpr8.cxx 234-240, 246-251,
\* 256-262, 270-276, 287-293): the elements at i are erased as long as
\* their X equals that of element i - 1.  The source reads maRange[i] before
\* it tests i < mnCount; past the end the test ends the loop whatever was
\* read.
RECURSIVE EraseRun(_, _, _, _)
EraseRun(range, mnCount, i, erased) ==
    IF i < mnCount /\ At(range, i).X = At(range, i - 1).X
    THEN EraseRun(Erase(range, i), mnCount - 1, i, Append(erased, At(range, i).Y))
    ELSE [maRange |-> range, mnCount |-> mnCount, erased |-> erased]

\* sort( aTmp.begin(), aTmp.end() ) (interpr8.cxx 277).
RECURSIVE SortDoubles(_)
SortDoubles(aTmp) ==
    IF aTmp = << >> THEN << >>
    ELSE LET v == aTmp[Len(aTmp)]
             sorted == SortDoubles(SubSeq(aTmp, 1, Len(aTmp) - 1))
             Before(w) == ~fLess(v, w)
             After(w) == fLess(v, w)
         IN SelectSeq(sorted, Before) \o <<v>> \o SelectSeq(sorted, After)

\* The Y of a collapsed run (interpr8.cxx 228-296): fTmp is the Y of the
\* element kept, erased the Ys of the elements erased.
Aggregated(nAggregation, fTmp, erased) ==
    LET values == <<fTmp>> \o erased
        nCounter == Len(values)
        aTmp == SortDoubles(values)
        Larger(a, b) == IF fLess(a, b) THEN b ELSE a
        Smaller(a, b) == IF fLess(b, a) THEN b ELSE a
    IN CASE nAggregation = 1 -> fDiv(fSum(values), Double(nCounter))
         [] nAggregation = 7 -> fSum(values)
         [] nAggregation \in {2, 3} -> Double(nCounter)
         [] nAggregation = 4 ->
                CHOOSE v \in {values[k] : k \in 1..nCounter} :
                    \A k \in 1..nCounter : ~fLess(v, values[k])
         [] nAggregation = 6 ->
                CHOOSE v \in {values[k] : k \in 1..nCounter} :
                    \A k \in 1..nCounter : ~fLess(values[k], v)
         [] nAggregation = 5 ->
                IF nCounter % 2 = 1
                THEN At(aTmp, nCounter \div 2)
                ELSE fDiv(fAdd(At(aTmp, nCounter \div 2), At(aTmp, nCounter \div 2 - 1)),
                          Double(2))
         [] OTHER -> fTmp

\* The first loop of PreprocessDataRange (interpr8.cxx 212-315), in four
\* parts: StepLoop is the head of the loop at index i with the month
\* conversion of element i, StepLoopAt the test for a run of equal X,
\* StepLoopRun the aggregation of the run and StepLoopNext the step
\* discovery behind it.  aDate is the date variable of the function.
RECURSIVE StepLoop(_, _, _, _)
RECURSIVE StepLoopAt(_, _, _, _)
RECURSIVE StepLoopRun(_, _, _, _, _)
RECURSIVE StepLoopNext(_, _, _, _)

\* The step discovery behind a collapsed run (interpr8.cxx 297-314): when
\* an element follows, i moves to it and the step is taken there, else the
\* step is mfStepSize itself.
StepLoopNext(o, i, aDateI, nAggregation) ==
    LET bMonth == o.mnMonthDay # 0
        bNext == i < o.mnCount - 1
        iNext == IF bNext THEN i + 1 ELSE i
        aDate1 == IF bNext /\ bMonth THEN Date(At(o.maRange, iNext).X) ELSE aDateI
        fStep == IF bNext
                 THEN IF bMonth
                      THEN 12 * (aDate1.Year - aDateI.Year) + (aDate1.Month - aDateI.Month)
                      ELSE At(o.maRange, iNext).X - At(o.maRange, iNext - 1).X
                 ELSE o.mfStepSize
    IN StepLoop([o EXCEPT !.mfStepSize = IF fStep < @ THEN fStep ELSE @],
                iNext + 1, aDate1, nAggregation)

\* The aggregation of the run at i (interpr8.cxx 228-296): run is the range
\* with the run erased.
StepLoopRun(o, i, aDateI, nAggregation, run) ==
    StepLoopNext([o EXCEPT
                     !.maRange = [run.maRange EXCEPT
                                     ![i].Y = Aggregated(nAggregation,
                                                         At(o.maRange, i - 1).Y,
                                                         run.erased)],
                     !.mnCount = run.mnCount],
                 i, aDateI, nAggregation)

\* The step at i (interpr8.cxx 219-227, 312-314).
StepLoopAt(o, i, aDateI, nAggregation) ==
    LET fStep == At(o.maRange, i).X - At(o.maRange, i - 1).X
    IN IF fStep # 0
       THEN StepLoop([o EXCEPT !.mfStepSize = IF fStep < @ THEN fStep ELSE @],
                     i + 1, aDateI, nAggregation)
       ELSE IF nAggregation = 0
       THEN [o |-> [o EXCEPT !.mnErrorValue = "errNoValue"], ok |-> FALSE]
       ELSE StepLoopRun(o, i, aDateI, nAggregation,
                        IF nAggregation \in 1..7
                        THEN EraseRun(o.maRange, o.mnCount, i, << >>)
                        ELSE [maRange |-> o.maRange, mnCount |-> o.mnCount,
                              erased |-> << >>])

StepLoop(o, i, aDate, nAggregation) ==
    IF i >= o.mnCount THEN [o |-> o, ok |-> TRUE]
    ELSE IF o.mnMonthDay # 0
    THEN LET aDateI == Date(At(o.maRange, i).X)
         IN StepLoopAt([o EXCEPT !.maRange[i + 1].X = aDateI.Year * 12 + aDateI.Month],
                       i, aDateI, nAggregation)
    ELSE StepLoopAt(o, i, aDate, nAggregation)

\* The step check from index i on (interpr8.cxx 318-333): it ends at the
\* first step that differs from mfStepSize, with an error when that step
\* is no multiple of it.
RECURSIVE GapCheck(_, _)
GapCheck(o, i) ==
    IF i >= o.mnCount THEN [bHasGap |-> FALSE, ok |-> TRUE]
    ELSE LET fStep == At(o.maRange, i).X - At(o.maRange, i - 1).X
         IN IF fStep # o.mfStepSize
            THEN IF ~fEq(fmod(fStep, o.mfStepSize), Double(0))
                 THEN [bHasGap |-> FALSE, ok |-> FALSE]
                 ELSE [bHasGap |-> TRUE, ok |-> TRUE]
            ELSE GapCheck(o, i + 1)

\* The insertion of the points missing before element i (interpr8.cxx
\* 358-370).  The quotient of the counts is above 0.3 exactly when ten
\* times the missing count is above three times the original count.
RECURSIVE InsertLoop(_, _, _, _, _, _, _)
InsertLoop(o, i, fXGap, fYGap, nMissingXCount, fOriginalCount, bDataCompletion) ==
    IF ~(fXGap < At(o.maRange, i).X)
    THEN [o |-> o, i |-> i, nMissingXCount |-> nMissingXCount, ok |-> TRUE]
    ELSE LET inserted ==
                 [o EXCEPT
                     !.maRange = Insert(@, i, DataPoint(fXGap,
                                     IF bDataCompletion THEN fYGap ELSE Double(0))),
                     !.mnCount = @ + 1]
         IN IF 10 * (nMissingXCount + 1) > 3 * fOriginalCount
            THEN [o |-> [inserted EXCEPT !.mnErrorValue = "errNoValue"], i |-> i + 1,
                  nMissingXCount |-> nMissingXCount + 1, ok |-> FALSE]
            ELSE InsertLoop(inserted, i + 1, fXGap + o.mfStepSize, fYGap,
                            nMissingXCount + 1, fOriginalCount, bDataCompletion)

\* The gap filling from index i on (interpr8.cxx 342-372).  In month mode
\* the distance is taken between the dates that the X values, by then month
\* numbers, stand for as day numbers.
RECURSIVE FillLoop(_, _, _, _, _, _)
FillLoop(o, i, aDate, nMissingXCount, fOriginalCount, bDataCompletion) ==
    IF i >= o.mnCount THEN [o |-> o, ok |-> TRUE]
    ELSE
    LET bMonth == o.mnMonthDay # 0
        aDate1 == IF bMonth THEN Date(At(o.maRange, i).X) ELSE aDate
        fDist == IF bMonth
                 THEN 12 * (aDate1.Year - aDate.Year) + (aDate1.Month - aDate.Month)
                 ELSE At(o.maRange, i).X - At(o.maRange, i - 1).X
    IN IF fDist > o.mfStepSize
       THEN LET fYGap == fDiv(fAdd(At(o.maRange, i).Y, At(o.maRange, i - 1).Y), Double(2))
                r == InsertLoop(o, i, At(o.maRange, i - 1).X + o.mfStepSize, fYGap,
                                nMissingXCount, fOriginalCount, bDataCompletion)
            IN IF ~r.ok THEN [o |-> r.o, ok |-> FALSE]
               ELSE FillLoop(r.o, r.i + 1, aDate1, r.nMissingXCount,
                             fOriginalCount, bDataCompletion)
       ELSE FillLoop(o, i + 1, aDate1, nMissingXCount, fOriginalCount, bDataCompletion)

\* prefillTrendData (interpr8.cxx 401-423).
prefillTrendData(o) ==
    LET Y(i) == At(o.maRange, i).Y
    IN IF o.bEDS
       THEN [o |-> [o EXCEPT !.mpTrend[1] =
                        fDiv(fSub(Y(o.mnCount - 1), Y(0)), Double(o.mnCount - 1))],
             ok |-> TRUE]
       ELSE IF o.mnCount < 2 * o.mnSmplInPrd
       THEN [o |-> [o EXCEPT !.mnErrorValue = "errNoValue"], ok |-> FALSE]
       ELSE LET fSumOf == fSum([k \in 1..o.mnSmplInPrd |->
                                  fSub(Y(k - 1 + o.mnSmplInPrd), Y(k - 1))])
            IN [o |-> [o EXCEPT !.mpTrend[1] =
                           fDiv(fSumOf, Double(o.mnSmplInPrd * o.mnSmplInPrd))],
                ok |-> TRUE]

\* The average of period i (interpr8.cxx 440-442).
PeriodAverage(o, i) ==
    fDiv(fSum([k \in 1..o.mnSmplInPrd |-> At(o.maRange, i * o.mnSmplInPrd + k - 1).Y]),
         Double(o.mnSmplInPrd))

\* prefillPerIdx (interpr8.cxx 425-470).
prefillPerIdx(o) ==
    IF o.bEDS THEN [o |-> o, ok |-> TRUE]
    ELSE IF o.mnSmplInPrd = 0
    THEN [o |-> [o EXCEPT !.mnErrorValue = "errUnknownState"], ok |-> FALSE]
    ELSE
    LET nPeriods == o.mnCount \div o.mnSmplInPrd
        aPeriodAverage == [k \in 1..nPeriods |-> PeriodAverage(o, k - 1)]
        \* the average corrected for the position j within the period
        Level(i, j) ==
            fAdd(At(aPeriodAverage, i),
                 fMul(fSub(Double(j), fMul(Fraction(1, 2), Double(o.mnSmplInPrd - 1))),
                      At(o.mpTrend, 0)))
        fI(j) == fSum([k \in 1..nPeriods |->
                          LET i == k - 1
                              y == At(o.maRange, i * o.mnSmplInPrd + j).Y
                          IN IF o.bAdditive
                             THEN fSub(y, Level(i, j))
                             ELSE fDiv(y, Level(i, j))])
    IN IF \E k \in 1..nPeriods : fEq(aPeriodAverage[k], Double(0))
       THEN [o |-> [o EXCEPT !.mnErrorValue = "errDivisionByZero"], ok |-> FALSE]
       ELSE [o |-> [o EXCEPT !.mpPerIdx =
                       [k \in 1..o.mnCount |->
                           IF k <= o.mnSmplInPrd
                           THEN fDiv(fI(k - 1), Double(nPeriods))
                           ELSE @[k]],
                             !.aPerIdxSet = 0..(o.mnSmplInPrd - 1)],
             ok |-> TRUE]

\* prefillBaseData (interpr8.cxx 472-479).
prefillBaseData(o) ==
    IF o.bEDS
    THEN [o |-> [o EXCEPT !.mpBase[1] = At(o.maRange, 0).Y], ok |-> TRUE]
    ELSE [o |-> [o EXCEPT !.mpBase[1] = fDiv(At(o.maRange, 0).Y, At(o.mpPerIdx, 0))],
          ok |-> TRUE]

\* initData (interpr8.cxx 380-399).  An array element no statement has
\* written holds "unset".
initData(o) ==
    LET array == [k \in 1..o.mnCount |-> "unset"]
        o1 == [o EXCEPT !.mpBase = array,
                        !.mpTrend = array,
                        !.mpPerIdx = IF o.bEDS THEN @ ELSE array,
                        !.mpForecast = [array EXCEPT ![1] = At(o.maRange, 0).Y]]
        t == prefillTrendData(o1)
        p == prefillPerIdx(t.o)
    IN IF ~t.ok THEN [o |-> t.o, ok |-> FALSE, stage |-> "trend"]
       ELSE IF ~p.ok THEN [o |-> p.o, ok |-> FALSE, stage |-> "peridx"]
       ELSE [o |-> prefillBaseData(p.o).o, ok |-> TRUE, stage |-> "done"]

\* The variants of the function.
ScETSType ==
    {"etsAdd", "etsMult", "etsSeason", "etsPIAdd", "etsPIMult", "etsStatAdd", "etsStatMult"}

\* PreprocessDataRange (interpr8.cxx 149-378), in the order of the source:
\* the sort, the target check, the period length, the month detection, the
\* first loop, the step check, the gap filling and initData.  rTMat is << >>
\* for a null matrix.  The result holds the object, the return value and
\* the stage at which the function returned.

\* The gap filling and initData (interpr8.cxx 336-377).
PreprocessFill(o, bHasGap, bDataCompletion) ==
    IF ~bHasGap THEN initData(o)
    ELSE LET fill == FillLoop(o, 1, Date(At(o.maRange, 0).X), 0, o.mnCount,
                              bDataCompletion)
         IN IF ~fill.ok THEN [o |-> fill.o, ok |-> FALSE, stage |-> "gaps"]
            ELSE initData(fill.o)

\* The step check (interpr8.cxx 316-334) on the result of the first loop.
PreprocessCheck(steps, bDataCompletion) ==
    IF ~steps.ok THEN [o |-> steps.o, ok |-> FALSE, stage |-> "duplicate"]
    ELSE LET check == GapCheck(steps.o, 1)
         IN IF ~check.ok
            THEN [o |-> [steps.o EXCEPT !.mnErrorValue = "errNoValue"],
                  ok |-> FALSE, stage |-> "step"]
            ELSE PreprocessFill(steps.o, check.bHasGap, bDataCompletion)

\* The month conversion of the first X and the first loop (interpr8.cxx
\* 206-315): o holds mnMonthDay.
PreprocessSteps(o, bDataCompletion, nAggregation) ==
    LET aDate == Date(At(o.maRange, 0).X)
    IN PreprocessCheck(
           StepLoop([o EXCEPT !.mfStepSize = DBL_MAX,
                              !.maRange[1].X = IF o.mnMonthDay # 0
                                               THEN aDate.Year * 12 + aDate.Month
                                               ELSE @],
                    1, aDate, nAggregation),
           bDataCompletion)

\* The month detection (interpr8.cxx 188-204): o holds mnSmplInPrd.
PreprocessMonth(o, bDataCompletion, nAggregation) ==
    PreprocessSteps([o EXCEPT !.mnMonthDay = MonthDay(o)], bDataCompletion, nAggregation)

\* The target check and the period length (interpr8.cxx 161-186): o holds
\* the sorted range.
PreprocessTarget(o, rSmplInPrd, bDataCompletion, nAggregation, rTMat, eETSType) ==
    IF /\ rTMat # << >>
       /\ IF eETSType \notin {"etsPIAdd", "etsPIMult"}
          THEN At(rTMat, 0) < At(o.maRange, 0).X
          ELSE At(rTMat, 0) < At(o.maRange, o.mnCount - 1).X
    THEN [o |-> [o EXCEPT !.mnErrorValue = "errIllegalFPOperation"],
          ok |-> FALSE, stage |-> "target"]
    ELSE PreprocessMonth([o EXCEPT !.mnSmplInPrd = IF rSmplInPrd # 1 THEN rSmplInPrd
                                                   ELSE CalcPeriodLen(o)],
                         bDataCompletion, nAggregation)

PreprocessDataRange(o0, rMatX, rMatY, rSmplInPrd, bDataCompletion, nAggregation, rTMat, eETSType) ==
    PreprocessTarget(
        [o0 EXCEPT
            !.bEDS = (rSmplInPrd = 0),
            !.bAdditive = eETSType \in {"etsAdd", "etsPIAdd", "etsStatAdd"},
            !.maRange = SortByX([i \in 1..o0.mnCount |->
                                    DataPoint(rMatX[i], Double(rMatY[i]))])],
        rSmplInPrd, bDataCompletion, nAggregation, rTMat, eETSType)

(***************************************************************************)
(* One call of ScForecast_Ets, in two steps: the preprocessing of the data *)
(* range, and the output of the result.                                    *)
(***************************************************************************)
\* The arguments of a call, before it is made.
ForecastCall(pMatX, pMatY, pTMat, eETSType, nSmplInPrd, bDataCompletion, nAggregation) ==
    [ phase |-> "input",
      pMatX |-> pMatX,
      pMatY |-> pMatY,
      pTMat |-> pTMat,
      eETSType |-> eETSType,
      nSmplInPrd |-> nSmplInPrd,
      bDataCompletion |-> bDataCompletion,
      nAggregation |-> nAggregation,
      aETSCalc |-> ScETSForecastCalculation(0),
      stage |-> "none",
      pushed |-> [kind |-> "none", value |-> "none"] ]

\* The call after PreprocessDataRange returned r (interpr8.cxx 1311-1314):
\* on failure the error of the calculation is pushed and the call ends.
ForecastPreprocessed(call, r) ==
    IF ~r.ok
    THEN [call EXCEPT !.phase = "pushed", !.stage = r.stage, !.aETSCalc = r.o,
                      !.pushed = [kind |-> "error", value |-> r.o.mnErrorValue]]
    ELSE [call EXCEPT !.phase = "preprocessed", !.stage = r.stage, !.aETSCalc = r.o]

\* ScForecast_Ets up to the preprocessing (interpr8.cxx 1168-1314): the
\* aggregation mode is checked, Season detects the period, Stat and Season
\* have no target matrix; when the preprocessing fails its error is pushed.
ScForecast_Ets ==
    /\ ets.phase = "input"
    /\ ets' =
         IF ets.nAggregation < 1 \/ ets.nAggregation > 7
         THEN [ets EXCEPT !.phase = "pushed", !.stage = "parameters",
                          !.pushed = [kind |-> "error", value |-> "errIllegalParameter"]]
         ELSE ForecastPreprocessed(ets,
                  PreprocessDataRange(
                      ScETSForecastCalculation(Len(ets.pMatX)),
                      ets.pMatX, ets.pMatY,
                      IF ets.eETSType = "etsSeason" THEN 1 ELSE ets.nSmplInPrd,
                      ets.bDataCompletion, ets.nAggregation,
                      IF ets.eETSType \in {"etsStatAdd", "etsStatMult", "etsSeason"}
                      THEN << >> ELSE ets.pTMat,
                      ets.eETSType))
    /\ UNCHANGED <<ctl, sax, hc, hs, rt, mgr, hm, ox>>

\* ScForecast_Ets after the preprocessing (interpr8.cxx 1316-1374): the
\* result of the variant is pushed, for Season the samples in a period
\* (958-965).  The getters initialise the calculation first (481-491).
ScForecast_EtsResult ==
    /\ ets.phase = "preprocessed"
    /\ ets' = [ets EXCEPT
                  !.phase = "pushed",
                  !.aETSCalc.mbInitialised = TRUE,
                  !.pushed = IF ets.eETSType = "etsSeason"
                             THEN [kind |-> "double", value |-> ets.aETSCalc.mnSmplInPrd]
                             ELSE [kind |-> "matrix", value |-> ets.eETSType]]
    /\ UNCHANGED <<ctl, sax, hc, hs, rt, mgr, hm, ox>>

NextETS ==
    \/ ScForecast_Ets
    \/ ScForecast_EtsResult

\* The signature helper is idle in the specifications of the forecast.
IdleSignatures ==
    /\ ctl = XSecController
    /\ sax = Pipeline
    /\ hc = NoChainHistory
    /\ hs = NoIdHistory
    /\ rt = NoRoundTrip
    /\ mgr = DocumentSignatureManager
    /\ hm = NoManagerHistory
    /\ ox = NoExport

\* All sequences of length 1 to n over a set.
Vectors(S, n) == UNION { [1..k -> S] : k \in 1..n }

(***************************************************************************)
(* The target bounds check: X in any order, every variant, targets below,  *)
(* between and above the X values.                                         *)
(***************************************************************************)
InitTarget ==
    /\ IdleSignatures
    /\ \E pMatX \in Vectors(1..MaxX, MaxPoints), eETSType \in ScETSType,
          fTarget \in 0..(MaxX + 1) :
          ets = ForecastCall(pMatX, [i \in 1..Len(pMatX) |-> i], <<fTarget>>,
                             eETSType, 0, TRUE, 1)

SpecTarget == InitTarget /\ [][NextETS]_vars

\* The smallest and the largest X of the data handed to the call.
SmallestX(pMatX) == CHOOSE x \in {pMatX[k] : k \in 1..Len(pMatX)} : \A k \in 1..Len(pMatX) : x <= pMatX[k]

LargestX(pMatX) == CHOOSE x \in {pMatX[k] : k \in 1..Len(pMatX)} : \A k \in 1..Len(pMatX) : x >= pMatX[k]

\* The condition of the target bounds check on the arguments of the call.
TargetBelowData(call) ==
    CASE call.eETSType \in {"etsAdd", "etsMult"} -> call.pTMat[1] < SmallestX(call.pMatX)
      [] call.eETSType \in {"etsPIAdd", "etsPIMult"} -> call.pTMat[1] < LargestX(call.pMatX)
      [] OTHER -> FALSE

\* C17: the call ends in the target bounds check exactly when, for a non-PI
\* variant, the first target is less than the smallest X, and for a PI
\* variant, less than the largest X; it then pushes IllegalFPOperation.
\* The Stat and Season variants never end in this check.
C17_TargetCheck ==
    ets.phase \in {"preprocessed", "pushed"} =>
        /\ (ets.stage = "target") <=> TargetBelowData(ets)
        /\ ets.stage = "target" =>
               /\ ets.phase = "pushed"
               /\ ets.pushed = [kind |-> "error", value |-> "errIllegalFPOperation"]
        /\ ets.eETSType \in {"etsStatAdd", "etsStatMult", "etsSeason"} =>
               ets.stage # "target"

\* A PI call on unsorted data whose target lies within the data ends in the
\* target check.
C17_Witness ==
    /\ ets.phase = "pushed"
    /\ ets.stage = "target"
    /\ ets.eETSType = "etsPIAdd"
    /\ ets.pTMat[1] >= SmallestX(ets.pMatX)
    /\ Len(ets.pMatX) = 3
    /\ ets.pMatX[3] < ets.pMatX[2]

(***************************************************************************)
(* The period detection: X = 1..N, every Y over a few values, the variants *)
(* that detect the period (Season always, Add when asked for with 1).      *)
(***************************************************************************)
SampleY == 0..2

InitPeriod ==
    /\ IdleSignatures
    /\ \E N \in 1..MaxSamples, eETSType \in {"etsSeason", "etsAdd"} :
          \E pMatY \in [1..N -> SampleY] :
             ets = ForecastCall([i \in 1..N |-> i], pMatY, <<N + 1>>, eETSType, 1, TRUE, 1)

SpecPeriod == InitPeriod /\ [][NextETS]_vars

\* The candidates of the period detection and those of least mean error.
PeriodCandidates(o) == 2..(o.mnCount \div 2)

BestPeriods(o) ==
    {P \in PeriodCandidates(o) :
        \A Q \in PeriodCandidates(o) : ~fLess(MeanError(o, Q), MeanError(o, P))}

\* The calls in which the period detection had a candidate.
PeriodDetected ==
    /\ ets.phase \in {"preprocessed", "pushed"}
    /\ ets.aETSCalc.mnCount >= 4

\* C18 as stated: the period is a candidate of least mean error, and the
\* smallest of these.
C18_Original ==
    PeriodDetected =>
        /\ ets.aETSCalc.mnSmplInPrd \in BestPeriods(ets.aETSCalc)
        /\ \A P \in BestPeriods(ets.aETSCalc) : ets.aETSCalc.mnSmplInPrd <= P

\* C18: the period is a candidate in 2..N/2 of least mean error; of several
\* such candidates it is the smallest when that error is zero and the
\* largest when it is not.  Season pushes this period.
C18_PeriodLength ==
    PeriodDetected =>
        /\ ets.aETSCalc.mnSmplInPrd \in BestPeriods(ets.aETSCalc)
        /\ \A P \in BestPeriods(ets.aETSCalc) :
              IF fEq(MeanError(ets.aETSCalc, P), Double(0))
              THEN ets.aETSCalc.mnSmplInPrd <= P
              ELSE ets.aETSCalc.mnSmplInPrd >= P
        /\ (ets.eETSType = "etsSeason" /\ ets.pushed.kind = "double") =>
               ets.pushed.value = ets.aETSCalc.mnSmplInPrd

\* Season has pushed the larger of two periods of the same non-zero error.
C18_Witness ==
    /\ ets.phase = "pushed"
    /\ ets.eETSType = "etsSeason"
    /\ ets.pushed.kind = "double"
    /\ ets.pushed.value = 3
    /\ BestPeriods(ets.aETSCalc) = {2, 3}
    /\ ~fEq(MeanError(ets.aETSCalc, 3), Double(0))

(***************************************************************************)
(* The preprocessing of irregular data: double exponential smoothing on    *)
(* series given by their gaps (a gap of 0 repeats an X), on a regular      *)
(* series with two more points behind it, and on series of firsts of a     *)
(* month.                                                                  *)
(***************************************************************************)
RECURSIVE FromGaps(_, _)
FromGaps(x, gaps) ==
    IF gaps = << >> THEN <<x>> ELSE <<x>> \o FromGaps(x + Head(gaps), Tail(gaps))

RECURSIVE Ascending(_)
Ascending(S) ==
    IF S = {} THEN << >>
    ELSE LET m == CHOOSE x \in S : \A y \in S : x <= y
         IN <<m>> \o Ascending(S \ {m})

\* The day number of the first of month m of 1900.
FirstOfMonth(m) == CHOOSE x \in 1..400 : Date(x) = [Year |-> 1900, Month |-> m, Day |-> 1]

SampleYs == <<1, 3, 2, 6, 4, 5, 7>>

RegularSeries == <<0, 2, 4, 6, 8>>

SampleSeries ==
    {FromGaps(0, gaps) : gaps \in UNION {[1..k -> 0..MaxGap] : k \in 0..(MaxSeries - 1)}}
    \cup {RegularSeries \o <<8 + g1, 8 + g1 + g2>> : g1 \in 1..MaxGap, g2 \in 1..MaxGap}
    \cup {[i \in 1..Cardinality(months) |-> FirstOfMonth(Ascending(months)[i])] :
             months \in (SUBSET (1..MaxMonth)) \ {{}}}

InitPreprocess ==
    /\ IdleSignatures
    /\ \E pMatX \in SampleSeries, bDataCompletion \in BOOLEAN, nAggregation \in 1..7 :
          /\ nAggregation # 1 => \E i, j \in 1..Len(pMatX) : i # j /\ pMatX[i] = pMatX[j]
          /\ ets = ForecastCall(pMatX, [i \in 1..Len(pMatX) |-> SampleYs[i]],
                                <<LargestX(pMatX) + 1>>, "etsAdd", 0,
                                bDataCompletion, nAggregation)

SpecPreprocess == InitPreprocess /\ [][NextETS]_vars

\* The distinct X of a call in ascending order, in the unit of the
\* preprocessing: months when every X falls on the same day of a month,
\* else days.
MonthSeries(call) ==
    \A k \in 1..Len(call.pMatX) : Date(call.pMatX[k]).Day = Date(call.pMatX[1]).Day

DistinctX(call) == Ascending({call.pMatX[k] : k \in 1..Len(call.pMatX)})

Positions(call) ==
    IF MonthSeries(call)
    THEN [i \in 1..Len(DistinctX(call)) |->
             12 * Date(DistinctX(call)[i]).Year + Date(DistinctX(call)[i]).Month]
    ELSE DistinctX(call)

Gaps(xs) == [i \in 1..(Len(xs) - 1) |-> xs[i + 1] - xs[i]]

SmallestGap(gaps) == CHOOSE g \in {gaps[i] : i \in 1..Len(gaps)} : \A i \in 1..Len(gaps) : g <= gaps[i]

\* C14 as stated: after a successful preprocessing the X are strictly
\* increasing with every gap equal to mfStepSize; a series with a gap that
\* is no multiple of its smallest gap is rejected with NoValue.
C14_Original ==
    LET o == ets.aETSCalc
        gaps == Gaps(Positions(ets))
    IN /\ ets.phase = "preprocessed" =>
              \A i \in 1..(o.mnCount - 1) :
                  /\ At(o.maRange, i).X > At(o.maRange, i - 1).X
                  /\ At(o.maRange, i).X - At(o.maRange, i - 1).X = o.mfStepSize
       /\ ( /\ ets.phase \in {"preprocessed", "pushed"}
            /\ \E i \in 1..Len(gaps) : gaps[i] % SmallestGap(gaps) # 0 ) =>
              ets.pushed = [kind |-> "error", value |-> "errNoValue"]

\* The Y values of the points of a call whose X is x.
RunValues(call, x) ==
    LET at == Ascending({k \in 1..Len(call.pMatX) : call.pMatX[k] = x})
    IN [j \in 1..Len(at) |-> Double(call.pMatY[at[j]])]

\* The value that stands for a run in an aggregation mode: mean, count,
\* maximum, median, minimum, sum.
RunValue(nAggregation, values) ==
    LET n == Len(values)
        ordered == SortDoubles(values)
    IN CASE nAggregation = 1 -> fDiv(fSum(values), Double(n))
         [] nAggregation \in {2, 3} -> Double(n)
         [] nAggregation = 4 -> ordered[n]
         [] nAggregation = 5 -> IF n % 2 = 1 THEN ordered[(n + 1) \div 2]
                                ELSE fDiv(fAdd(ordered[n \div 2], ordered[n \div 2 + 1]),
                                          Double(2))
         [] nAggregation = 6 -> ordered[1]
         [] nAggregation = 7 -> fSum(values)

\* The calls whose data repeat an X and whose distinct X are evenly spaced,
\* so that nothing but the runs is irregular.
RunsOnly(call) ==
    /\ Len(DistinctX(call)) < Len(call.pMatX)
    /\ \A i \in 1..Len(Gaps(Positions(call))) :
          Gaps(Positions(call))[i] = Gaps(Positions(call))[1]

\* C15 as stated: every run of equal X is collapsed to one point that holds
\* the value of the run in the aggregation mode.
C15_Original ==
    (ets.phase \in {"preprocessed", "pushed"} /\ RunsOnly(ets)) =>
        /\ ets.pushed.kind # "error"
        /\ ets.aETSCalc.mnCount = Len(DistinctX(ets))
        /\ \A i \in 1..Len(DistinctX(ets)) :
              ets.aETSCalc.maRange[i].Y =
                  RunValue(ets.nAggregation, RunValues(ets, DistinctX(ets)[i]))

\* The points that filling the gaps of a call inserts, in the unit of the
\* preprocessing, when every gap is a multiple of the smallest.
EvenGaps(call) ==
    \A i \in 1..Len(Gaps(Positions(call))) :
        Gaps(Positions(call))[i] % SmallestGap(Gaps(Positions(call))) = 0

RECURSIVE MissingPoints(_, _)
MissingPoints(gaps, step) ==
    IF gaps = << >> THEN 0
    ELSE (Head(gaps) \div step - 1) + MissingPoints(Tail(gaps), step)

\* C16 as stated, for data without repeated X: when the missing points are
\* more than 30% of the points given, NoValue is pushed; when they are at
\* most 30%, the gap filling does not fail.
C16_Original ==
    ( /\ ets.phase \in {"preprocessed", "pushed"}
      /\ Len(DistinctX(ets)) = Len(ets.pMatX)
      /\ Len(ets.pMatX) > 1
      /\ EvenGaps(ets) ) =>
        IF 10 * MissingPoints(Gaps(Positions(ets)), SmallestGap(Gaps(Positions(ets))))
               > 3 * Len(ets.pMatX)
        THEN ets.pushed = [kind |-> "error", value |-> "errNoValue"]
        ELSE ets.stage # "gaps"

(***************************************************************************)
(* The initialisation: X = 1..N, every Y over a few values around zero,    *)
(* every variant, without a period (double exponential smoothing), with a  *)
(* detected period and with the period 2.                                  *)
(***************************************************************************)
SignedY == -1..2

InitInitData ==
    /\ IdleSignatures
    /\ \E N \in 1..MaxInit, eETSType \in ScETSType, nSmplInPrd \in 0..2 :
          \E pMatY \in [1..N -> SignedY] :
             ets = ForecastCall([i \in 1..N |-> i], pMatY, <<N + 1>>, eETSType,
                                nSmplInPrd, TRUE, 1)

SpecInitData == InitInitData /\ [][NextETS]_vars

\* The additive variants, and the calls without a period.
AdditiveCall(call) == call.eETSType \in {"etsAdd", "etsPIAdd", "etsStatAdd"}

DESCall(call) == call.eETSType # "etsSeason" /\ call.nSmplInPrd = 0

\* Some full period of the Y of a call has the sum, and so the mean, zero.
RECURSIVE SumTo(_, _, _)
SumTo(pMatY, first, last) ==
    IF first > last THEN 0 ELSE pMatY[first] + SumTo(pMatY, first + 1, last)

ZeroPeriod(call, nPeriodLen) ==
    \E i \in 0..(Len(call.pMatY) \div nPeriodLen - 1) :
        SumTo(call.pMatY, i * nPeriodLen + 1, (i + 1) * nPeriodLen) = 0

\* C19 as stated: a multiplicative seasonal calculation with a full period
\* of mean zero ends with DivisionByZero; an additive seasonal calculation
\* and a calculation without a period never end with DivisionByZero.
C19_Original ==
    ets.phase \in {"preprocessed", "pushed"} =>
        /\ ( /\ ~DESCall(ets)
             /\ ~AdditiveCall(ets)
             /\ ets.stage \in {"peridx", "done"}
             /\ ZeroPeriod(ets, ets.aETSCalc.mnSmplInPrd) ) =>
               ets.pushed = [kind |-> "error", value |-> "errDivisionByZero"]
        /\ (DESCall(ets) \/ AdditiveCall(ets)) =>
               ets.pushed # [kind |-> "error", value |-> "errDivisionByZero"]

\* C20 as stated: after the initialisation Base[0] is Y[0] without a period
\* and in the additive variants, and Y[0] / PerIdx[0] in the multiplicative
\* variants with a period.
C20_Original ==
    ets.stage = "done" =>
        IF DESCall(ets) \/ AdditiveCall(ets)
        THEN At(ets.aETSCalc.mpBase, 0) = At(ets.aETSCalc.maRange, 0).Y
        ELSE At(ets.aETSCalc.mpBase, 0) =
                 fDiv(At(ets.aETSCalc.maRange, 0).Y, At(ets.aETSCalc.mpPerIdx, 0))

NotCreate(step) == step # "create"

\* The steps chainOn performs once the components are ready, for the
\* collaborators the controller holds.
ChainOnSteps ==
    <<"disconnect">>
    \o (IF ctl.m_xPreviousNodeOnSAXChain THEN <<"redirect">> ELSE << >>)
    \o (IF ctl.m_xElementStackKeeper THEN <<"retrieve", "stop">> ELSE << >>)
    \o <<"connect">>

\* C24: a chainOn that returns true found the keeper disconnected and
\* performed, in this order, the disconnection of the keeper's output, the
\* redirection of the previous stage (when there is one), the replay of the
\* stack keeper's missed events and its stop (when there is one), and last
\* the connection of the keeper's output; a chainOn that returns false
\* performed none of these steps and left the connection as it was, and a
\* chainOn called while the keeper is connected does nothing at all.
C24_ChainOnOrder ==
    /\ sax.rc = "true" =>
           /\ ~hc.wasConnected /\ Engaged
           /\ SelectSeq(sax.steps, NotCreate) = ChainOnSteps
           /\ sax.sekNext = (IF ctl.m_xNextNodeOnSAXChain THEN "next" ELSE "none")
    /\ sax.rc = "false" =>
           /\ Engaged = hc.wasConnected
           /\ SelectSeq(sax.steps, NotCreate) = << >>
           /\ hc.wasConnected => sax.steps = << >>
    /\ (\E i \in 1..Len(sax.steps) : sax.steps[i] = "connect") => sax.rc = "true"

\* C24 witness: an engagement with a previous stage and a stack keeper that
\* replayed a missed event, all five steps taken.
C24_Witness ==
    /\ sax.rc = "true" /\ sax.replayed
    /\ sax.steps = <<"disconnect", "redirect", "retrieve", "stop", "connect">>

\* C24 second case: chainOn was called while the keeper was connected.
C24_NoOpReached == sax.rc = "false" /\ hc.wasConnected /\ Engaged
(***************************************************************************)
(* Tearing the chain down.                                                 *)
(***************************************************************************)
ViaKeeper(es) == [i \in 1..Len(es) |-> [e |-> es[i], via |-> "sek"]]

\* clearSAXChainConnector calls retrieve only when the controller holds both
\* a stack keeper and a SAXEventKeeper (xsecctl.cxx 613-620).
Flushes == ctl.m_xElementStackKeeper /\ ctl.m_xSAXEventKeeper

\* The state the controller is left in by clearSAXChainConnector.
TornDown ==
    /\ ~ctl'.m_bIsSAXEventKeeperConnected
    /\ ~ctl'.m_xPreviousNodeOnSAXChain
    /\ ~ctl'.m_xNextNodeOnSAXChain
    /\ ~ctl'.m_xElementStackKeeper

C25_EngagedReached ==
    /\ hc.op = "clearSAXChainConnector"
    /\ hc.wasConnected
    /\ sax.steps = <<"retrieve", "disconnect", "restore", "start">>
(***************************************************************************)
(* Missions on a chained controller: the controller's chain calls together *)
(* with startMission (no SAX events flow; the component status does not    *)
(* depend on them).                                                        *)
(***************************************************************************)
\* startMission (xsecctl.cxx 508-545) on a controller that is part of a chain.
startMissionOnChain ==
    /\ \E u \in BOOLEAN, k \in BOOLEAN : ctl' = startMissionCtl(ctl, u, k)
    /\ sax' = World.x
    /\ hc' = Hist("startMission")
    /\ UNCHANGED <<hs, rt, mgr, hm, ox, ets>>

InitMission == InitChain

NextMission ==
    \/ \E k \in BOOLEAN : setSAXChainConnector(TRUE, TRUE, k)
    \/ clearSAXChainConnector
    \/ \E b \in BOOLEAN, ok \in BOOLEAN : blockingStatusChanged(b, ok)
    \/ \E b \in BOOLEAN, ok \in BOOLEAN : collectionStatusChanged(b, ok)
    \/ startMissionOnChain

SpecMission == InitMission /\ [][NextMission]_vars

Status == ctl.m_nStatusOfSecurityComponents

Logged(steps, step) == \E i \in 1..Len(steps) : steps[i] = step

StatusCallbacks == {"blockingStatusChanged", "collectionStatusChanged"}

\* C26: a call creates the security components only if their status was
\* UNINITIALIZED before it, does so once, and leaves the status INITIALIZED
\* or FAILTOINITIALIZED; the status returns to UNINITIALIZED only by
\* startMission (hence at most one creation per mission); and a status
\* callback that finds the status FAILTOINITIALIZED creates nothing, does
\* not connect the keeper, does not stop the stack keeper and leaves the
\* status FAILTOINITIALIZED.
C26_CreatedOncePerMission ==
    [][/\ Logged(sax'.steps, "create") =>
              /\ Status = "UNINITIALIZED"
              /\ Status' \in {"INITIALIZED", "FAILTOINITIALIZED"}
              /\ Len(SelectSeq(sax'.steps, NotCreate)) = Len(sax'.steps) - 1
       /\ (Status # "UNINITIALIZED" /\ Status' = "UNINITIALIZED") =>
              hc'.op = "startMission"
       /\ (Status = "FAILTOINITIALIZED" /\ hc'.op \in StatusCallbacks) =>
              /\ Status' = "FAILTOINITIALIZED"
              /\ ~ctl'.m_bIsSAXEventKeeperConnected
              /\ sax'.steps = << >>
              /\ sax'.rc \in {"false", "none"}
              /\ sax'.sekNext = sax.sekNext /\ sax'.eskOn = sax.eskOn]_vars

\* C26 witness: the creation has failed, and a later status callback that
\* set a flag found the status FAILTOINITIALIZED and did not connect.
C26_Witness ==
    /\ Status = "FAILTOINITIALIZED"
    /\ hc.op \in StatusCallbacks
    /\ ctl.m_bIsBlocking /\ ctl.m_bIsCollectingElement
    /\ sax.rc = "false" /\ sax.steps = << >>
    /\ ~Engaged /\ sax.eskOn

\* C26 second case: a mission started after the failure, and the creation
\* was made again and succeeded.
C26_CreatedAgainReached ==
    /\ Status = "INITIALIZED" /\ Logged(sax.steps, "create")
    /\ ~ctl.m_xUriBinding /\ ctl.m_xSecurityContext
(***************************************************************************)
(* What add and remove write, and where.                                   *)
(***************************************************************************)
\* The record the controller holds for the signature add has just created.
NewRecord ==
    ctl'.m_vInternalSignatureInformations[
        Len(ctl'.m_vInternalSignatureInformations)].signatureInfor

\* The temporary output of the manager after a write holds exactly the
\* exports of rInformations, in this order: in ODF one complete document in
\* the temporary stream, in OOXML the parts 1..Len(rInformations) of the
\* committed temporary storage, whose relationships part lists as many.
TempHolds(rInformations) ==
    IF mgr.nStorageFormat # "OOXML"
    THEN /\ mgr'.mxTempSignatureStream.is
         /\ StreamData(mgr'.mxTempSignatureStream) =
                DocumentHeader
                \o Flatten([n \in 1..Len(rInformations) |-> exportSignature(rInformations[n])])
                \o endElement("document-signatures")
    ELSE /\ mgr'.mxTempSignatureStorage.is
         /\ mgr'.mxTempSignatureStorage.bCommitted
         /\ mgr'.mxTempSignatureStorage.nRelations = Len(rInformations)
         /\ LET parts == StorageParts(mgr'.mxTempSignatureStorage, mgr.bTest)
            IN /\ Len(parts) = Len(rInformations)
               /\ \A i \in 1..Len(parts) :
                      parts[i] = exportOOXMLSignature(RootStorage, rInformations[i], mgr.bTest)

C27_RemoveReached ==
    /\ hm.op = "remove" /\ hm.outcome = "done"
    /\ mgr.nStorageFormat = "ODF"
    /\ Len(hm.before) = 2
    /\ Len(mgr.mxTempSignatureStream.exported) = 1
(***************************************************************************)
(* The nesting of the events of one export: exportSignature or             *)
(* exportOOXMLSignature is called once on a sample record.                 *)
(***************************************************************************)
\* exportSignature is called: the document handler gets the events of the
\* signature.
ExportODF ==
    /\ ox.phase = "input"
    /\ ox' = [ox EXCEPT !.phase = "exported",
                        !.events = exportSignature(ox.rInformation)]
    /\ UNCHANGED <<ctl, sax, hc, hs, rt, mgr, hm, ets>>

InitNesting ==
    /\ ctl = XSecController
    /\ sax = Pipeline
    /\ hc = NoChainHistory
    /\ hs = NoIdHistory
    /\ rt = NoRoundTrip
    /\ mgr = DocumentSignatureManager
    /\ hm = NoManagerHistory
    /\ ets = NoForecast
    /\ \E xRootStorage \in SampleStorages, bTest \in BOOLEAN,
          rInformation \in SampleRecords \cup
              { SampleRecord(<<"ID_sig">>, <<"MIIC">>, <<"comment">>,
                             [stDateTime |-> [t |-> 1, NanoSeconds |-> 0],
                              ouDateTime |-> << >>],
                             rReferences) : rReferences \in SampleReferenceLists } :
          ox = [ phase |-> "input",
                 xRootStorage |-> xRootStorage,
                 rInformation |-> rInformation,
                 bTest |-> bTest,
                 threw |-> FALSE,
                 events |-> << >> ]

NextNesting ==
    \/ ExportODF
    \/ ExportOOXML

SpecNesting == InitNesting /\ [][NextNesting]_vars

\* The nesting of a piece of an event sequence: the endElements that close
\* an element opened before the piece (closes), the elements the piece
\* leaves open, innermost last (opens), and whether every endElement that
\* closes an element of the piece names the innermost one still open (ok).
NestOne(e) ==
    [ ok |-> TRUE,
      closes |-> IF e.k = "end" THEN <<e.tag>> ELSE << >>,
      opens |-> IF e.k = "start" THEN <<e.tag>> ELSE << >> ]

NestJoin(l, r) ==
    LET k == IF Len(l.opens) < Len(r.closes) THEN Len(l.opens) ELSE Len(r.closes)
    IN [ ok |-> /\ l.ok /\ r.ok
                /\ \A i \in 1..k : l.opens[Len(l.opens) - i + 1] = r.closes[i],
         closes |-> l.closes \o SubSeq(r.closes, k + 1, Len(r.closes)),
         opens |-> SubSeq(l.opens, 1, Len(l.opens) - k) \o r.opens ]

RECURSIVE NestOf(_, _, _)
NestOf(events, lo, hi) ==
    IF lo = hi THEN NestOne(events[lo])
    ELSE NestJoin(NestOf(events, lo, (lo + hi) \div 2),
                  NestOf(events, (lo + hi) \div 2 + 1, hi))

\* Every endElement names the innermost element still open.
Nested(events) ==
    \/ events = << >>
    \/ LET n == NestOf(events, 1, Len(events)) IN n.ok /\ n.closes = << >>

\* The elements a nested sequence of events leaves open, innermost last.
OpenElements(events) ==
    IF events = << >> THEN << >> ELSE NestOf(events, 1, Len(events)).opens

C30_ODFReached ==
    /\ ox.phase = "exported"
    /\ ox.rInformation.ouSignatureId = << >>
    /\ ox.rInformation.ouX509Certificate = << >>
    /\ ox.rInformation.ouDescription = << >>
    /\ OpenElements(ox.events) = << >>

(***************************************************************************)
(* The recurrence of the smoothing (interpr8.cxx 493-523, 765-809).        *)
(***************************************************************************)
\* The sum of the squared errors of calcAccuracyIndicators (500-506), from
\* index i on.
RECURSIVE SumErrSq(_, _)
SumErrSq(o, i) ==
    IF i >= o.mnCount THEN Double(0)
    ELSE LET fError == fSub(At(o.mpForecast, i), At(o.maRange, i).Y)
         IN fAdd(fMul(fError, fError), SumErrSq(o, i + 1))

\* calcAccuracyIndicators (interpr8.cxx 493-523): of the indicators the
\* model keeps mfMSE, the sum of the squared errors over mnCount - 1.
calcAccuracyIndicators(o) ==
    [o EXCEPT !.mfMSE = fDiv(SumErrSq(o, 1), Double(o.mnCount - 1))]

\* The element of mpPerIdx the recurrence reads at index i (784, 792).
PerIdxIndex(o, i) ==
    IF o.bAdditive
    THEN (IF i > o.mnSmplInPrd THEN i - o.mnSmplInPrd ELSE i)
    ELSE (IF i >= o.mnSmplInPrd THEN i - o.mnSmplInPrd ELSE i)

\* mpPerIdx[ nIdx ] as the recurrence reads it: an element no statement has
\* written holds what the allocation left, fUninit.
PerIdxValue(o, nIdx, fUninit) ==
    IF nIdx \in o.aPerIdxSet THEN At(o.mpPerIdx, nIdx) ELSE fUninit

\* fWeight * a + ( 1 - fWeight ) * b, the form of every smoothing step.
Smooth(fWeight, a, b) ==
    fAdd(fMul(fWeight, a), fMul(fSub(Double(1), fWeight), b))

\* The statements of the loop body of refill after mpBase[ i ] is known
\* (773-775, 787-788, 795-803): fLevel is mpBase[ i - 1 ] + mpTrend[ i - 1 ],
\* fPerIdx the element of mpPerIdx read at nIdx.
refillStore(o, i, fBase, fLevel, fPerIdx) ==
    LET fTrend == Smooth(o.mfGamma, fSub(fBase, At(o.mpBase, i - 1)),
                         At(o.mpTrend, i - 1))
    IN IF o.bEDS
       THEN [o EXCEPT !.mpBase[i + 1] = fBase,
                      !.mpTrend[i + 1] = fTrend,
                      !.mpForecast[i + 1] = fLevel]
       ELSE LET fNew == IF o.bAdditive
                        THEN Smooth(o.mfBeta, fSub(At(o.maRange, i).Y, fBase), fPerIdx)
                        ELSE Smooth(o.mfBeta, fDiv(At(o.maRange, i).Y, fBase), fPerIdx)
                \* mpPerIdx[ nIdx ] as the forecast reads it, after the
                \* assignment to mpPerIdx[ i ]
                fRead == IF PerIdxIndex(o, i) = i THEN fNew ELSE fPerIdx
            IN [o EXCEPT !.mpBase[i + 1] = fBase,
                         !.mpPerIdx[i + 1] = fNew,
                         !.aPerIdxSet = @ \cup {i},
                         !.mpTrend[i + 1] = fTrend,
                         !.mpForecast[i + 1] = IF o.bAdditive
                                               THEN fAdd(fLevel, fRead)
                                               ELSE fMul(fLevel, fRead)]

\* mpBase[ i ] of the loop body of refill (771-772, 785-786, 793-794).
refillBase(o, i, fLevel, fPerIdx) ==
    refillStore(o, i,
                IF o.bEDS THEN Smooth(o.mfAlpha, At(o.maRange, i).Y, fLevel)
                ELSE IF o.bAdditive
                THEN Smooth(o.mfAlpha, fSub(At(o.maRange, i).Y, fPerIdx), fLevel)
                ELSE Smooth(o.mfAlpha, fDiv(At(o.maRange, i).Y, fPerIdx), fLevel),
                fLevel, fPerIdx)

\* The element of a set of one element: Only({F(x) : x \in {e}}) is F(e),
\* with e evaluated once.
Only(S) == CHOOSE r \in S : TRUE

\* The loop of refill from index i on, and the accuracy indicators after it
\* (interpr8.cxx 765-809).
RECURSIVE refillFrom(_, _, _)
refillFrom(o, i, fUninit) ==
    IF i >= o.mnCount THEN calcAccuracyIndicators(o)
    ELSE Only({ refillFrom(o1, i + 1, fUninit) :
                o1 \in { refillBase(o, i,
                                    fAdd(At(o.mpBase, i - 1), At(o.mpTrend, i - 1)),
                                    IF o.bEDS THEN Double(0)
                                    ELSE PerIdxValue(o, PerIdxIndex(o, i), fUninit)) } })

refill(o, fUninit) == refillFrom(o, 1, fUninit)

(***************************************************************************)
(* The recurrence called with chosen parameters: X = 1..N, Y over two      *)
(* values, the additive and the multiplicative variant, without a period,  *)
(* with a detected period and with the period 2.  After the preprocessing  *)
(* refill is called up to MaxPasses times, each time with one of the       *)
(* sample parameters; passes keeps the parameters and the object after     *)
(* each call.                                                              *)
(***************************************************************************)
MaxPasses == 3      \* calls of refill on one calculation

\* alpha, beta and gamma of a call of refill.
SampleParameters ==
    { [mfAlpha |-> Fraction(1, 2), mfBeta |-> Double(1), mfGamma |-> Double(1)],
      [mfAlpha |-> Double(1), mfBeta |-> Double(0), mfGamma |-> Double(1)],
      [mfAlpha |-> Double(0), mfBeta |-> Double(1), mfGamma |-> Double(0)] }

\* What a read of an element that was never written can give.
UninitValues == {Double(0), Double(1)}

\* The series of a multiplicative calculation with a period have two first
\* periods of the same sum: the seed of the trend is zero, and the exact
\* fractions stay within 32-bit integers.
SmallFractions(pMatY, eETSType, nSmplInPrd) ==
    (eETSType \in {"etsMult", "etsPIMult", "etsStatMult"} /\ nSmplInPrd # 0 /\ Len(pMatY) >= 4)
        => pMatY[1] + pMatY[2] = pMatY[3] + pMatY[4]

InitRefill ==
    /\ IdleSignatures
    /\ \E N \in 3..MaxInit, eETSType \in {"etsAdd", "etsMult"}, nSmplInPrd \in 0..2 :
          \E pMatY \in [1..N -> 1..2] :
             /\ SmallFractions(pMatY, eETSType, nSmplInPrd)
             /\ ets = ForecastCall([i \in 1..N |-> i], pMatY, <<N + 1>>, eETSType,
                                   nSmplInPrd, TRUE, 1)
                      @@ [passes |-> << >>]

\* One call of refill with the parameters p.
Refill ==
    /\ ets.phase = "preprocessed"
    /\ Len(ets.passes) < MaxPasses
    /\ \E p \in SampleParameters, fUninit \in UninitValues :
          LET o == refill([ets.aETSCalc EXCEPT !.mfAlpha = p.mfAlpha,
                                               !.mfBeta = p.mfBeta,
                                               !.mfGamma = p.mfGamma], fUninit)
          IN ets' = [ets EXCEPT !.aETSCalc = o,
                                !.passes = Append(@, [p |-> p, o |-> o])]
    /\ UNCHANGED <<ctl, sax, hc, hs, rt, mgr, hm, ox>>

NextRefill ==
    \/ ScForecast_Ets
    \/ Refill

SpecRefill == InitRefill /\ [][NextRefill]_vars

\* The element of mpPerIdx read at index i holds a seed of the
\* initialisation or was written at a smaller index of the same pass.
SeededOrWritten(o, i) ==
    \/ PerIdxIndex(o, i) < o.mnSmplInPrd
    \/ PerIdxIndex(o, i) \in 1..(i - 1)

\* C29 as stated: every element of mpPerIdx that refill reads was seeded by
\* the initialisation or written at a smaller index in the same pass, and
\* two calls of refill with the same alpha, beta and gamma leave the same
\* Base, Trend, PerIdx and Forecast arrays and the same MSE, whatever was
\* tried between them.
C29_Original ==
    ets.phase = "preprocessed" =>
        /\ \A k \in 1..Len(ets.passes) :
              ~ets.passes[k].o.bEDS =>
                  \A i \in 1..(ets.passes[k].o.mnCount - 1) :
                      SeededOrWritten(ets.passes[k].o, i)
        /\ \A j, k \in 1..Len(ets.passes) :
              ets.passes[j].p = ets.passes[k].p =>
                  /\ ets.passes[j].o.mpBase = ets.passes[k].o.mpBase
                  /\ ets.passes[j].o.mpTrend = ets.passes[k].o.mpTrend
                  /\ ets.passes[j].o.mpPerIdx = ets.passes[k].o.mpPerIdx
                  /\ ets.passes[j].o.mpForecast = ets.passes[k].o.mpForecast
                  /\ ets.passes[j].o.mfMSE = ets.passes[k].o.mfMSE

(***************************************************************************)
(* The optimizer (interpr8.cxx 553-763).  CalcAlphaBetaGamma, CalcBetaGamma *)
(* and CalcGamma are three copies of one search, for alpha with            *)
(* CalcBetaGamma (or CalcGamma without a period) inside, for beta with     *)
(* CalcGamma inside, and for gamma; the model writes the search once, with *)
(* the parameter searched as its level, as a walk through the places of    *)
(* the function at which the parameter is evaluated.  The search of the    *)
(* model stops at an interval of 1/4 instead of 0.001, to keep the exact   *)
(* fractions small: its loop runs once.                                    *)
(***************************************************************************)
cfMinABCResolution == Fraction(1, 4)

\* The variables of a search before its first evaluation: stage is the
\* place in the function, f the value given to the parameter next.
SearchStart ==
    [stage |-> "lower", f |-> Double(0),
     f0 |-> Double(0), f1 |-> Fraction(1, 2), f2 |-> Double(1),
     fE0 |-> Double(0), fE2 |-> Double(0)]

\* One turn of the loop up to the new f1 (596-607): the half on the side of
\* the higher end is dropped, the middle becomes the end there and keeps
\* its MSE.
Narrow(s, mfMSE) ==
    IF fLess(s.fE0, s.fE2)
    THEN [s EXCEPT !.f2 = s.f1, !.fE2 = mfMSE,
                   !.f1 = fDiv(fAdd(s.f0, s.f1), Double(2)),
                   !.f = fDiv(fAdd(s.f0, s.f1), Double(2))]
    ELSE [s EXCEPT !.f0 = s.f1, !.fE0 = mfMSE,
                   !.f1 = fDiv(fAdd(s.f1, s.f2), Double(2)),
                   !.f = fDiv(fAdd(s.f1, s.f2), Double(2))]

\* After the loop (616-639): the lower end is taken when its MSE is below
\* the one of the last middle, else the search is done.
SearchEnd(s, mfMSE) ==
    IF fLess(s.fE0, s.fE2)
    THEN (IF fLess(s.fE0, mfMSE) THEN [s EXCEPT !.stage = "end", !.f = s.f0]
          ELSE [s EXCEPT !.stage = "done"])
    ELSE (IF fLess(s.fE2, mfMSE) THEN [s EXCEPT !.stage = "end", !.f = s.f2]
          ELSE [s EXCEPT !.stage = "done"])

\* The search up to its next evaluation: the value f the parameter gets, or
\* the stage "done" (555, 574, 583, 586, 594-639).
SearchNext(s, mfMSE) ==
    CASE s.stage = "lower" -> [s EXCEPT !.f = Double(0)]
      [] s.stage = "upper" -> [s EXCEPT !.f = Double(1)]
      [] s.stage = "middle" -> [s EXCEPT !.f = Fraction(1, 2)]
      [] s.stage = "equal" -> [s EXCEPT !.f = Double(0)]
      [] s.stage = "loop" ->
             IF fLess(cfMinABCResolution, fSub(s.f2, s.f1))
             THEN Narrow(s, mfMSE)
             ELSE SearchEnd(s, mfMSE)
      [] s.stage = "done" -> s

\* The search after the evaluation that gave mfMSE (566, 575, 585, 593,
\* 615, 627, 638).
SearchEvaluated(s, mfMSE) ==
    CASE s.stage = "lower" -> [s EXCEPT !.fE0 = mfMSE, !.stage = "upper"]
      [] s.stage = "upper" -> [s EXCEPT !.fE2 = mfMSE, !.stage = "middle"]
      [] s.stage = "middle" ->
             [s EXCEPT !.stage = IF fEq(s.fE0, mfMSE) /\ fEq(mfMSE, s.fE2)
                                 THEN "equal" ELSE "loop"]
      [] s.stage = "equal" -> [s EXCEPT !.stage = "done"]
      [] s.stage = "loop" -> s
      [] s.stage = "end" -> [s EXCEPT !.stage = "done"]

RECURSIVE Search(_, _, _, _)

\* The parameter of the level set to f, the search inside it and refill
\* (557-565, 715-717, 651-653 and their repetitions): CalcBetaGamma inside
\* alpha with a period, CalcGamma inside alpha without one and inside beta.
Evaluate(o, level, f, fUninit) ==
    Only({ refill(o1, fUninit) :
           o1 \in { CASE level = "gamma" -> [o EXCEPT !.mfGamma = f]
                      [] level = "beta" ->
                             Search([o EXCEPT !.mfBeta = f], "gamma", SearchStart,
                                    fUninit)
                      [] level = "alpha" ->
                             Search([o EXCEPT !.mfAlpha = f],
                                    IF o.bEDS THEN "gamma" ELSE "beta", SearchStart,
                                    fUninit) } })

\* The evaluation the search s asks for, and the search after it.
SearchAt(o, level, s, fUninit) ==
    IF s.stage = "done" THEN o
    ELSE Only({ Search(o1, level, SearchEvaluated(s, o1.mfMSE), fUninit) :
                o1 \in { Evaluate(o, level, s.f, fUninit) } })

\* The search of one parameter from the place s on; o.mfMSE is the MSE of
\* the last evaluation.
Search(o, level, s, fUninit) ==
    Only({ SearchAt(o, level, s1, fUninit) :
           s1 \in { SearchNext(s, IF s.stage = "loop" THEN o.mfMSE ELSE Double(0)) } })

CalcParameter(o, level, fUninit) == Search(o, level, SearchStart, fUninit)

\* CalcGamma (interpr8.cxx 708-763).
CalcGamma(o, fUninit) == CalcParameter(o, "gamma", fUninit)

\* CalcBetaGamma (interpr8.cxx 644-706).
CalcBetaGamma(o, fUninit) == CalcParameter(o, "beta", fUninit)

\* CalcAlphaBetaGamma (interpr8.cxx 553-642): without a period beta is 0.
CalcAlphaBetaGamma(o, fUninit) ==
    Only({ calcAccuracyIndicators(o1) :
           o1 \in { CalcParameter([o EXCEPT !.mfBeta = IF o.bEDS THEN Double(0) ELSE @],
                                  "alpha", fUninit) } })

\* initCalc (interpr8.cxx 481-491).
initCalc(o, fUninit) ==
    IF ~o.mbInitialised
    THEN Only({ calcAccuracyIndicators([o1 EXCEPT !.mbInitialised = TRUE]) :
                o1 \in { CalcAlphaBetaGamma(o, fUninit) } })
    ELSE o

\* The MSE CalcAlphaBetaGamma finds at alpha = 0, alpha = 1 and alpha = 0.5
\* (566, 575, 583), in this order of evaluation.
EvaluatedMiddle(o, fE0, fE2) == <<fE0, fE2, o.mfMSE>>

EvaluatedUpper(o, fE0, fUninit) ==
    Only({ EvaluatedMiddle(o1, fE0, o.mfMSE) :
           o1 \in { Evaluate(o, "alpha", Fraction(1, 2), fUninit) } })

EvaluatedLower(o, fUninit) ==
    Only({ EvaluatedUpper(o1, o.mfMSE, fUninit) :
           o1 \in { Evaluate(o, "alpha", Double(1), fUninit) } })

Evaluated(o, fUninit) ==
    Only({ EvaluatedLower(o1, fUninit) :
           o1 \in { Evaluate([o EXCEPT !.mfBeta = IF o.bEDS THEN Double(0) ELSE @],
                             "alpha", Double(0), fUninit) } })

(***************************************************************************)
(* The statistics of a calculation: X = 1..N, Y over two values, the two   *)
(* Stat variants, without a period, with a detected period and with the    *)
(* period 2.  evaluated keeps the MSE of the three first evaluations of    *)
(* alpha.                                                                  *)
(***************************************************************************)
InitOptimize ==
    /\ IdleSignatures
    /\ \E N \in 3..MaxInit, eETSType \in {"etsStatAdd", "etsStatMult"},
          nSmplInPrd \in 0..2 :
          \E pMatY \in [1..N -> 1..2] :
             /\ SmallFractions(pMatY, eETSType, nSmplInPrd)
             /\ ets = ForecastCall([i \in 1..N |-> i], pMatY, << >>, eETSType,
                                   nSmplInPrd, TRUE, 1)
                      @@ [evaluated |-> << >>]

\* GetStatisticValue (interpr8.cxx 912-956, called at 1353-1363): the
\* calculation is initialised and the matrix of the statistics is pushed.
GetStatisticValue ==
    /\ ets.phase = "preprocessed"
    /\ \E fUninit \in UninitValues :
          ets' = [ets EXCEPT
                     !.phase = "pushed",
                     !.aETSCalc = initCalc(ets.aETSCalc, fUninit),
                     !.evaluated = Evaluated(ets.aETSCalc, fUninit),
                     !.pushed = [kind |-> "matrix", value |-> ets.eETSType]]
    /\ UNCHANGED <<ctl, sax, hc, hs, rt, mgr, hm, ox>>

NextOptimize ==
    \/ ScForecast_Ets
    \/ GetStatisticValue

SpecOptimize == InitOptimize /\ [][NextOptimize]_vars

\* a <= b on doubles.
fLessEq(a, b) == fLess(a, b) \/ fEq(a, b)

InUnitInterval(f) == fLessEq(Double(0), f) /\ fLessEq(f, Double(1))

\* C22 as stated: after the optimizer alpha, beta and gamma lie in [0, 1]
\* and the final MSE is no greater than the MSE evaluated at alpha = 0, 0.5
\* and 1, without a period and in both seasonal modes.
C22_Original ==
    (ets.phase = "pushed" /\ ets.pushed.kind = "matrix") =>
        /\ InUnitInterval(ets.aETSCalc.mfAlpha)
        /\ InUnitInterval(ets.aETSCalc.mfBeta)
        /\ InUnitInterval(ets.aETSCalc.mfGamma)
        /\ \A k \in 1..3 : fLessEq(ets.aETSCalc.mfMSE, ets.evaluated[k])

(***************************************************************************)
(* The prediction intervals (interpr8.cxx 974-1165).  Of a half-width the  *)
(* model keeps which elements of the coefficient array c (without a        *)
(* period) or of the percentile array (with a period) it is computed from, *)
(* and the square of the coefficient: c[ i ] is a square root, its square  *)
(* an exact fraction.  The data are in days (mnMonthDay = 0).              *)
(***************************************************************************)
\* The largest SCSIZE, as a whole number above every index of the model.
SizeMax == 1000000

\* The conversion of a double to SCSIZE (998, 1085, 1128, 1150): the
\* fraction is cut off; a value of -1 or below is outside of the type, and
\* the conversion gives nUndefined.
ToSize(f, nUndefined) ==
    IF f.n < 0 THEN (IF -f.n >= f.d THEN nUndefined ELSE 0)
    ELSE f.n \div f.d

\* What the conversion of a value outside of SCSIZE can give: zero, or the
\* value wrapped around.
UndefinedSizes == {0, SizeMax}

\* nSize of the arrays for the largest target (991-1000, 1121-1130):
\* fMaxTarget is the distance of the largest target from the last X.
ArraySize(fMaxTarget, mfStepSize, nUndefined) ==
    ToSize(Fraction(fMaxTarget, mfStepSize), nUndefined)
        + (IF fEq(fmod(fMaxTarget, mfStepSize), Double(0)) THEN 0 ELSE 1)

\* A variant of nSteps without the step taken off.
Steps_NoOffset(fTarget, mfStepSize, nUndefined) ==
    ToSize(Fraction(fTarget, mfStepSize), nUndefined)

\* nSteps of a target (1085, 1150): fTarget is its distance from the last X.
Steps(fTarget, mfStepSize, nUndefined) ==
    ToSize(fSub(Fraction(fTarget, mfStepSize), Double(1)), nUndefined)

\* The square of c[ i ] (interpr8.cxx 1132-1140).
CoefficientSq(i, fPILevel) ==
    LET o == fSub(Double(1), fPILevel)
        fCube == fMul(fAdd(Double(1), o), fMul(fAdd(Double(1), o), fAdd(Double(1), o)))
    IN fAdd(Double(1),
            fMul(fDiv(fPILevel, fCube),
                 fAdd(fAdd(Double(1), fAdd(fMul(Double(4), o), fMul(Double(5), fMul(o, o)))),
                      fAdd(fMul(fMul(Double(2 * i), fPILevel),
                                fAdd(Double(1), fMul(Double(3), o))),
                           fMul(Double(2 * i * i), fMul(fPILevel, fPILevel))))))

\* The half-width of one target (1085-1095, 1150-1160): nSteps, fFactor,
\* the elements of the array in the order they are read, and without
\* interpolation the squares of the two coefficients of the quotient
\* c[ nSteps ] / c[ 0 ], where the array has these elements.
PredictionInterval(fTarget, nSize, nSteps, mfStepSize, bEDS, fPILevel) ==
    LET fFactor == fmod(fTarget, mfStepSize)
        nNext == (nSteps + 1) % (SizeMax + 1)
        bInterpolate == ~fEq(fFactor, Double(0))
    IN [ nSteps |-> nSteps,
         fFactor |-> fFactor,
         aRead |-> IF bEDS
                   THEN <<nSteps, 0>> \o (IF bInterpolate THEN <<nNext, 0>> ELSE << >>)
                   ELSE <<nSteps>> \o (IF bInterpolate THEN <<nNext>> ELSE << >>),
         bExact |-> bEDS /\ ~bInterpolate /\ nSteps < nSize,
         fNumeratorSq |-> IF bEDS /\ ~bInterpolate /\ nSteps < nSize
                          THEN CoefficientSq(nSteps, fPILevel) ELSE NaN,
         fDenominatorSq |-> IF bEDS /\ ~bInterpolate /\ nSteps < nSize
                            THEN CoefficientSq(0, fPILevel) ELSE NaN ]

\* The largest element of a target matrix (980-989, 1112-1120).
MaxTarget(rTMat) ==
    CHOOSE x \in {rTMat[k] : k \in 1..Len(rTMat)} : \A k \in 1..Len(rTMat) : x >= rTMat[k]

\* GetEDSPredictionIntervals and GetETSPredictionIntervals after initCalc
\* (980-1000, 1080-1100, 1112-1163): nSize and the half-width of every
\* target.
PredictionIntervals(o, rTMat, fPILevel, nUndefined) ==
    LET fLast == At(o.maRange, o.mnCount - 1).X
        nSize == ArraySize(MaxTarget(rTMat) - fLast, o.mfStepSize, nUndefined)
    IN [ nSize |-> nSize,
         rPIMat |-> [k \in 1..Len(rTMat) |->
                        PredictionInterval(rTMat[k] - fLast, nSize,
                                           Steps(rTMat[k] - fLast, o.mfStepSize,
                                                 nUndefined),
                                           o.mfStepSize, o.bEDS, fPILevel)] ]

(***************************************************************************)
(* The prediction interval calls: four points 1..4 steps of 1..MaxStep     *)
(* days apart, one or two targets from one day before the last X up to     *)
(* MaxAhead days behind it, without a period (additive) and with the       *)
(* period 2 (additive and multiplicative).                                 *)
(***************************************************************************)
MaxStep == 2        \* largest distance of the points of a prediction interval call
MaxAhead == 4       \* largest distance of a target from the last X

\* The Y of the prediction interval calls.
IntervalY == <<1, 2, 2, 1>>

\* The confidence level of the calls: the default (interpr8.cxx 1249).
IntervalLevel == Fraction(19, 20)

InitIntervals ==
    /\ IdleSignatures
    /\ \E nStep \in 1..MaxStep,
          call \in { [eETSType |-> "etsPIAdd", nSmplInPrd |-> 0],
                     [eETSType |-> "etsPIAdd", nSmplInPrd |-> 2],
                     [eETSType |-> "etsPIMult", nSmplInPrd |-> 2] } :
          \E pTMat \in Vectors((4 * nStep - 1)..(4 * nStep + MaxAhead), 2) :
             ets = ForecastCall([i \in 1..4 |-> nStep * i], IntervalY, pTMat,
                                call.eETSType, call.nSmplInPrd, TRUE, 1)
                   @@ [fPILevel |-> IntervalLevel,
                       intervals |-> [nSize |-> 0, rPIMat |-> << >>]]

\* ScForecast_Ets after the preprocessing for the prediction intervals
\* (interpr8.cxx 1330-1351): the calculation is initialised, the half-width
\* of every target is computed and the matrix is pushed.
ScForecast_EtsIntervals ==
    /\ ets.phase = "preprocessed"
    /\ ets.eETSType \in {"etsPIAdd", "etsPIMult"}
    /\ \E fUninit \in UninitValues :
          \E o \in { initCalc(ets.aETSCalc, fUninit) } :
             \E nUndefined \in UndefinedSizes :
                ets' = [ets EXCEPT
                           !.phase = "pushed",
                           !.aETSCalc = o,
                           !.intervals = PredictionIntervals(o, ets.pTMat, ets.fPILevel,
                                                             nUndefined),
                           !.pushed = [kind |-> "matrix", value |-> ets.eETSType]]
    /\ UNCHANGED <<ctl, sax, hc, hs, rt, mgr, hm, ox>>

NextIntervals ==
    \/ ScForecast_Ets
    \/ ScForecast_EtsIntervals

SpecIntervals == InitIntervals /\ [][NextIntervals]_vars

\* The distance of target k of the call from the last X.
Distance(call, k) == call.pTMat[k] - LargestX(call.pMatX)

\* The call has pushed the matrix of the half-widths.
IntervalsPushed == ets.phase = "pushed" /\ ets.pushed.kind = "matrix"

\* C21 as stated: without a period, the half-width of a target exactly k
\* steps behind the last sample (k >= 1) is z * RMSE * c[k] / c[0].
C21_Original ==
    (IntervalsPushed /\ ets.aETSCalc.bEDS) =>
        \A k \in 1..Len(ets.pTMat) :
            ( /\ Distance(ets, k) >= ets.aETSCalc.mfStepSize
              /\ Distance(ets, k) % ets.aETSCalc.mfStepSize = 0 ) =>
                /\ ets.intervals.rPIMat[k].bExact
                /\ ets.intervals.rPIMat[k].fNumeratorSq =
                       CoefficientSq(Distance(ets, k) \div ets.aETSCalc.mfStepSize,
                                     ets.fPILevel)
                /\ ets.intervals.rPIMat[k].fDenominatorSq =
                       CoefficientSq(0, ets.fPILevel)

\* C21: without a period, the half-width of a target exactly k steps behind
\* the last sample (k >= 1) is z * RMSE * c[k - 1] / c[0]: the coefficient
\* of the first step is c[0], and the half-width there is z * RMSE.
C21_CoefficientBeforeStep ==
    (IntervalsPushed /\ ets.aETSCalc.bEDS) =>
        \A k \in 1..Len(ets.pTMat) :
            ( /\ Distance(ets, k) >= ets.aETSCalc.mfStepSize
              /\ Distance(ets, k) % ets.aETSCalc.mfStepSize = 0 ) =>
                /\ ets.intervals.rPIMat[k].bExact
                /\ ets.intervals.rPIMat[k].nSteps
                       = Distance(ets, k) \div ets.aETSCalc.mfStepSize - 1
                /\ ets.intervals.rPIMat[k].aRead
                       = <<Distance(ets, k) \div ets.aETSCalc.mfStepSize - 1, 0>>
                /\ ets.intervals.rPIMat[k].fNumeratorSq =
                       CoefficientSq(Distance(ets, k) \div ets.aETSCalc.mfStepSize - 1,
                                     ets.fPILevel)
                /\ ets.intervals.rPIMat[k].fDenominatorSq =
                       CoefficientSq(0, ets.fPILevel)
                /\ fLess(CoefficientSq(Distance(ets, k) \div ets.aETSCalc.mfStepSize - 1,
                                       ets.fPILevel),
                         CoefficientSq(Distance(ets, k) \div ets.aETSCalc.mfStepSize,
                                       ets.fPILevel))

\* C21 witness: a call without a period has pushed the half-width of a
\* target two steps of two days behind the last sample, computed from c[1].
C21_Witness ==
    /\ IntervalsPushed
    /\ ets.aETSCalc.bEDS
    /\ ets.aETSCalc.mfStepSize = 2
    /\ \E k \in 1..Len(ets.pTMat) :
          /\ Distance(ets, k) = 4
          /\ ets.intervals.rPIMat[k].nSteps = 1
          /\ ets.intervals.rPIMat[k].fNumeratorSq = CoefficientSq(1, ets.fPILevel)

\* C28 as stated: for the targets the bounds check accepts, the elements
\* read of the coefficient array and of the percentile array lie in
\* 0..nSize - 1, with and without interpolation.
C28_Original ==
    IntervalsPushed =>
        \A k \in 1..Len(ets.pTMat) :
            \A r \in 1..Len(ets.intervals.rPIMat[k].aRead) :
                /\ 0 <= ets.intervals.rPIMat[k].aRead[r]
                /\ ets.intervals.rPIMat[k].aRead[r] < ets.intervals.nSize
====
